---- MODULE Spec2Model ----
(***************************************************************************)
(* Streaming relay (server, POST /api/chat) and client conversation state  *)
(* machine (App.jsx, multi-conversation version) of the chat workbench.    *)
(*                                                                         *)
(* Text is a sequence of one-character strings.  A usage object is a      *)
(* function from the field names it carries to numbers.  An absent        *)
(* optional property (usage of a Turn) is the empty sequence, a present    *)
(* one a one-element sequence.                                             *)
(***************************************************************************)
EXTENDS Integers, Sequences, FiniteSets, TLC

VARIABLES
    conversations,  \* App state `conversations`: newest first
    activeId,       \* App state `activeId` (NoId models null)
    streaming,      \* App state `streaming`
    abortRef,       \* abortRef.current: index of the request that owns the controller (0: null)
    req,            \* the sendMessage invocations: closure variables and position of each
    srv,            \* the /api/chat handler invocations: position, upstream history, bytes written
    nextId,         \* source of fresh conversation ids (Date.now().toString())
    storage,        \* localStorage["workbench_conversations"], parsed
    now,            \* Date.now()
    http,           \* the inbound HTTP request the server is routing, and its answer
    db              \* the conversation store: the tables and the answer to the last query

vars == <<conversations, activeId, streaming, abortRef, req, srv, nextId, storage, now, http,
          db>>

clientVars == <<conversations, activeId, streaming, abortRef, req, nextId, storage, now, http,
                db>>

----------------------------------------------------------------------------
(* Bounds *)

MaxReqs == 2        \* sendMessage invocations accepted in one behaviour
MaxConvos == 2      \* conversations created in one behaviour
MaxFrames == 2      \* upstream frames per request in Spec
MaxRelayFrames == 3 \* upstream frames per request in SpecRelay
MaxE2EFrames == 3   \* upstream frames of the request in SpecE2E
MaxTurns == 3       \* messages of the request body in SpecNormalize
MaxHttp == 2        \* inbound requests the server receives in SpecAuth
MaxClock == 3       \* the latest time Date.now() reaches in SpecEdit and SpecStore
MaxDbMsgs == 2      \* rows of the table messages in SpecStore

----------------------------------------------------------------------------
(* Values *)

NoId == 0

EmptyUsage == [f \in {} |-> 0]

UsageA == "input_tokens" :> 100

UsageB == "output_tokens" :> 2

\* a message_start usage as the upstream sends it: the prompt counts and the output
\* count so far
UsageStart == ("input_tokens" :> 100) @@ ("output_tokens" :> 1)

\* partial usage records
Usages == {UsageA, UsageB, UsageStart}

\* the JSON value null in a usage field
Null == -1

\* a usage whose output count is null: {"output_tokens": null}
UsageNull == "output_tokens" :> Null

\* `⚠️ Error: ` of the error annotation, one token of the content
ErrPrefix == "!Error: "

Last(s) == s[Len(s)]

RECURSIVE Flatten(_)
Flatten(ss) == IF ss = <<>> THEN <<>> ELSE Head(ss) \o Flatten(Tail(ss))

IsSpace(c) == c = " "

RECURSIVE TrimStart(_)
TrimStart(t) == IF t # <<>> /\ IsSpace(Head(t)) THEN TrimStart(Tail(t)) ELSE t

RECURSIVE TrimEnd(_)
TrimEnd(t) == IF t # <<>> /\ IsSpace(Last(t)) THEN TrimEnd(SubSeq(t, 1, Len(t) - 1)) ELSE t

\* String.prototype.trim
Trim(t) == TrimEnd(TrimStart(t))

----------------------------------------------------------------------------
(* Relay events, as the server serialises them and the client parses them *)

Event(type, text, usage, error) ==
    [type |-> type, text |-> text, usage |-> usage, error |-> error]

TextEv(t) == Event("text", t, EmptyUsage, <<>>)

UsageEv(u) == Event("usage", <<>>, u, <<>>)

UsageStartEv(u) == Event("usage_start", <<>>, u, <<>>)

DoneEv == Event("done", <<>>, EmptyUsage, <<>>)

ErrorEv(m) == Event("error", <<>>, EmptyUsage, m)

IsTerminal(e) == e.type \in {"done", "error"}

CountType(evs, type) == Cardinality({i \in DOMAIN evs : evs[i].type = type})

----------------------------------------------------------------------------
(* Upstream frames: one line of the upstream body.                         *)
(*   line    "data" when the line starts with `data: `, "other" otherwise  *)
(*   payload "json" (parses to an object), "null" (parses to null), "bad"  *)
(*           (JSON.parse throws), "DONE" ([DONE])                          *)
(*   type    parsed.type; deltaType parsed.delta?.type                     *)
(*   text    parsed.delta.text; usage parsed.usage / parsed.message.usage  *)
(*           (<<>> when absent)                                            *)

Frame(line, payload, type, deltaType, text, usage) ==
    [line |-> line, payload |-> payload, type |-> type, deltaType |-> deltaType,
     text |-> text, usage |-> usage]

TextFrame(t) == Frame("data", "json", "content_block_delta", "text_delta", t, <<>>)

DeltaFrame(u) == Frame("data", "json", "message_delta", "", <<>>, <<u>>)

StartFrame(u) == Frame("data", "json", "message_start", "", <<>>, <<u>>)

PingFrame == Frame("data", "json", "ping", "", <<>>, <<>>)

DeltaNoUsageFrame == Frame("data", "json", "message_delta", "", <<>>, <<>>)

JsonDeltaFrame == Frame("data", "json", "content_block_delta", "input_json_delta", <<>>, <<>>)

BadFrame == Frame("data", "bad", "", "", <<>>, <<>>)

\* `data: null`: JSON.parse succeeds and parsed.type throws a TypeError
NullFrame == Frame("data", "null", "", "", <<>>, <<>>)

DoneFrame == Frame("data", "DONE", "", "", <<>>, <<>>)

EventLine == Frame("other", "", "", "", <<>>, <<>>)

\* the frames the upstream sends in Spec
Frames == {TextFrame(<<"a">>), DeltaFrame(UsageB)}

\* the frames the upstream sends in SpecE2E
E2EFrames == {TextFrame(<<"a">>), TextFrame(<<"b">>), StartFrame(UsageA), DeltaFrame(UsageB)}

\* the frames the upstream sends in SpecRelay
RelayFrames ==
    {TextFrame(<<"a">>), StartFrame(UsageA), DeltaFrame(UsageB), PingFrame,
     DeltaNoUsageFrame, JsonDeltaFrame, BadFrame, NullFrame, DoneFrame, EventLine}

----------------------------------------------------------------------------
(* Server: the middleware chain an inbound request passes, in the order of  *)
(* registration: /health, express.static, the password check, the routes of *)
(* /api, the catch-all.  A path is the sequence of its segments; an optional *)
(* string (a header, a property of req.body, process.env.APP_PASSWORD) is    *)
(* <<>> when undefined and <<s>> when it is the string s.                    *)

\* the value of APP_PASSWORD when it is configured
Secret == "pw"

\* an inbound request: token is req.headers["x-auth-token"], xuser is
\* req.headers["x-username"], password and username are properties of req.body;
\* username.kind is "missing", "string" or "number"
HttpReq(method, path, token, xuser, password, username) ==
    [method |-> method, path |-> path, token |-> token, xuser |-> xuser,
     password |-> password, username |-> username]

NoUsername == [kind |-> "missing", text |-> <<>>]

Username(text) == [kind |-> "string", text |-> text]

NumberUsername == [kind |-> "number", text |-> <<>>]

NoReq == HttpReq("", <<>>, <<>>, <<>>, <<>>, NoUsername)

\* the exchange: n requests received so far; secret is process.env.APP_PASSWORD;
\* stage is the middleware the request has reached ("done" when it is answered);
\* handler is the route handler that ran ("none" when none did)
Http(n, secret, stage, q, status, res, handler) ==
    [n |-> n, secret |-> secret, stage |-> stage, q |-> q, status |-> status,
     res |-> res, handler |-> handler]

NoRes == [none |-> TRUE]

\* no inbound request is being routed; APP_PASSWORD is configured
NoHttp == Http(0, <<Secret>>, "none", NoReq, 0, NoRes, "none")

\* res.status(status).json(res) by handler
Answer(h, status, res, handler) ==
    [h EXCEPT !.stage = "done", !.status = status, !.res = res, !.handler = handler]

\* next()
Pass(h, stage) == [h EXCEPT !.stage = stage]

\* String.prototype.toLowerCase on a path segment; the routes are matched without
\* regard to case (the router's caseSensitive option is off)
LowerSegment(seg) ==
    CASE seg = "/API" -> "/api"
      [] seg = "/Health" -> "/health"
      [] OTHER -> seg

LowerPath(path) == [i \in DOMAIN path |-> LowerSegment(path[i])]

\* String.prototype.toLowerCase on a character of a username
LowerChar(c) ==
    CASE c = "B" -> "b"
      [] OTHER -> c

\* app.get("/health")
HealthRoute(h) ==
    IF h.q.method = "GET" /\ LowerPath(h.q.path) = <<"/health">>
    THEN Answer(h, 200, [ok |-> TRUE], "health")
    ELSE Pass(h, "static")

\* express.static(CLIENT_DIST): GET / is answered with index.html; no file of the
\* client build has one of the other paths
StaticFiles(h) ==
    IF h.q.method = "GET" /\ h.q.path = <<"/">>
    THEN Answer(h, 200, [file |-> "index.html"], "static")
    ELSE Pass(h, "auth")

\* the password protection middleware
PasswordCheck(h) ==
    IF h.q.path = <<>> \/ Head(h.q.path) # "/api" THEN Pass(h, "route")
    ELSE IF h.q.path = <<"/api", "/auth">> THEN Pass(h, "route")
    ELSE IF h.q.token = <<>> \/ h.q.token = <<"">> \/ h.q.token # h.secret
         THEN Answer(h, 401, [error |-> "Unauthorized"], "none")
         ELSE Pass(h, "route")

\* the handler of POST /api/auth; a username that is no string has no trim method,
\* the TypeError is answered with 500 by the default error handler
AuthRoute(h) ==
    IF h.q.username.kind = "number" THEN Answer(h, 500, NoRes, "auth")
    ELSE IF h.q.username.kind = "missing" \/ Trim(h.q.username.text) = <<>>
    THEN Answer(h, 400, [success |-> FALSE, error |-> "Username required"], "auth")
    ELSE IF h.q.password = h.secret
    THEN Answer(h, 200,
                [success |-> TRUE, token |-> h.secret,
                 username |-> [i \in DOMAIN Trim(h.q.username.text) |->
                                    LowerChar(Trim(h.q.username.text)[i])]],
                "auth")
    ELSE Answer(h, 401, [success |-> FALSE, error |-> "Invalid password"], "auth")

\* the handler of GET /api/conversations: the store is read for the user
ConversationsRoute(h) ==
    IF h.q.xuser = <<>> \/ h.q.xuser = <<"">>
    THEN Answer(h, 400, [error |-> "Username required"], "conversations")
    ELSE Answer(h, 200, [rows |-> <<>>], "conversations")

\* the route of the request, matched on method and lowered path: "auth", "chat",
\* "conversations", "spa" (the catch-all of GET) or "none" (404)
RouteOf(q) ==
    CASE q.method = "POST" /\ LowerPath(q.path) = <<"/api", "/auth">> -> "auth"
      [] q.method = "POST" /\ LowerPath(q.path) = <<"/api", "/chat">> -> "chat"
      [] q.method = "GET" /\ LowerPath(q.path) = <<"/api", "/conversations">> -> "conversations"
      [] q.method = "GET" -> "spa"
      [] OTHER -> "none"

\* the routes but /api/chat, whose handler is invoked by the action
Routes(h) ==
    CASE RouteOf(h.q) = "auth" -> AuthRoute(h)
      [] RouteOf(h.q) = "conversations" -> ConversationsRoute(h)
      [] RouteOf(h.q) = "spa" -> Answer(h, 200, [file |-> "index.html"], "spa")
      [] RouteOf(h.q) = "chat" -> Answer(h, 200, [stream |-> TRUE], "chat")
      [] OTHER -> Answer(h, 404, NoRes, "none")

----------------------------------------------------------------------------
(* Server: the conversation store.  convs is the table conversations, a     *)
(* function from the ids of its rows to owner (username), title and         *)
(* updatedAt; msgs is the table messages in the order of insertion, each    *)
(* row with conv (conversation_id), username and content; reply is the      *)
(* answer to the last request: the user who sent it, the status, the ids of *)
(* the rows of conversations and the rows of messages it returned.          *)

Reply(user, status, ids, turns) ==
    [user |-> user, status |-> status, ids |-> ids, turns |-> turns]

\* the tables after initDB(), no request answered yet
NoDb == [convs |-> <<>>, msgs |-> <<>>, reply |-> Reply("", 0, {}, <<>>)]

\* the rows of messages WHERE conversation_id = id, in the order of insertion
TurnsOf(d, id) == SelectSeq(d.msgs, LAMBDA m : m.conv = id)

\* the ids of the rows of conversations WHERE username = u
OwnedBy(d, u) == {id \in DOMAIN d.convs : d.convs[id].owner = u}

----------------------------------------------------------------------------
(* Server: app.post("/api/chat")                                           *)

\* msg.content of a posted message: a string ("string", text), an array of blocks
\* ("blocks", the text of each block, <<>> for a block without text), another truthy
\* value such as a number or an object ("other"), or null / missing ("null")
Content(kind, text, blocks) == [kind |-> kind, text |-> text, blocks |-> blocks]

Str(text) == Content("string", text, <<>>)

Blocks(blocks) == Content("blocks", <<>>, blocks)

OtherContent == Content("other", <<>>, <<>>)

NullContent == Content("null", <<>>, <<>>)

\* one element of req.body.messages
Msg(role, content, isStreaming) ==
    [role |-> role, content |-> content, streaming |-> isStreaming]

\* req.body.system: missing, a string, or a number other than 0
System(kind, text) == [kind |-> kind, text |-> text]

NoSystem == System("missing", <<>>)

\* req.body of a /api/chat request; kind tells what `messages` is
Body(kind, messages, system) == [kind |-> kind, messages |-> messages, system |-> system]

\* bodies an arbitrary HTTP client may post
HttpBodies ==
    {Body("array", <<>>, NoSystem), Body("missing", <<>>, NoSystem),
     Body("string", <<>>, NoSystem), Body("nullItem", <<>>, NoSystem)}

\* messages.filter(...).map(...) throws a TypeError unless messages is an array of objects
CleanThrows(body) == body.kind # "array"

\* system.trim() throws a TypeError when system is a truthy value that is no string
SystemThrows(body) == body.system.kind = "number"

\* the test of the filter: !msg.streaming && msg.content (an array is truthy, also
\* when it is empty; the empty string and null are not)
Kept(msg) ==
    /\ ~msg.streaming
    /\ CASE msg.content.kind = "string" -> msg.content.text # <<>>
         [] msg.content.kind = "null" -> FALSE
         [] OTHER -> TRUE

\* the text of a message: the string, or the joined texts of the blocks, or ""
TextOf(content) ==
    CASE content.kind = "string" -> content.text
      [] content.kind = "blocks" -> Flatten(content.blocks)
      [] OTHER -> <<>>

\* content of a message sent upstream: the flat string, or one text block with
\* cache_control {type: "ephemeral"}
Flat(text) == [kind |-> "string", text |-> text, cache_control |-> <<>>]

Wrapped(text) == [kind |-> "blocks", text |-> text, cache_control |-> <<"ephemeral">>]

\* messages.filter(...).map(...)
CleanMessagesMarkAllUsers(messages) ==
    LET arr == SelectSeq(messages, Kept)
    IN  [i \in DOMAIN arr |->
            IF arr[i].role = "user"
            THEN [role |-> "user", content |-> Wrapped(TextOf(arr[i].content))]
            ELSE [role |-> arr[i].role, content |-> Flat(TextOf(arr[i].content))]]

CleanMessagesMarkLastUser(messages) ==
    LET arr == SelectSeq(messages, Kept)
        us == {i \in DOMAIN arr : arr[i].role = "user"}
    IN  [i \in DOMAIN arr |->
            IF i \in us /\ \A j \in us : j <= i
            THEN [role |-> "user", content |-> Wrapped(TextOf(arr[i].content))]
            ELSE [role |-> arr[i].role, content |-> Flat(TextOf(arr[i].content))]]

CleanMessages(messages) ==
    LET arr == SelectSeq(messages, Kept)
    IN  [i \in DOMAIN arr |->
            IF arr[i].role = "user" /\ i = Len(arr)
            THEN [role |-> "user", content |-> Wrapped(TextOf(arr[i].content))]
            ELSE [role |-> arr[i].role, content |-> Flat(TextOf(arr[i].content))]]

\* requestBody: the messages, and the system field when `system && system.trim()`
\* (<<>>: the field is absent); model, max_tokens and temperature are left out
RequestBodySystemUntrimmed(body) ==
    [messages |-> CleanMessages(body.messages),
     system |-> IF body.system.kind = "string" /\ body.system.text # <<>>
                THEN <<[type |-> "text", text |-> body.system.text,
                        cache_control |-> <<"ephemeral">>]>>
                ELSE <<>>]

RequestBody(body) ==
    [messages |-> CleanMessages(body.messages),
     system |-> IF body.system.kind = "string" /\ Trim(body.system.text) # <<>>
                THEN <<[type |-> "text", text |-> body.system.text,
                        cache_control |-> <<"ephemeral">>]>>
                ELSE <<>>]

\* bodies of a non-success upstream response
ErrBody(kind, message) == [kind |-> kind, message |-> message]

ErrBodies ==
    {ErrBody("json", <<"overloaded">>), ErrBody("json", <<>>), ErrBody("notJson", <<>>),
     ErrBody("null", <<>>)}

\* the handler invocation when the request reaches it.  out: the events written with
\* res.write and not yet taken by the reader of the client, in order (SpecRelay has
\* no reader: there out holds every event written); status: the HTTP status sent
\* (0: none yet); up: the upstream response ("none", "ok", "nonok"); upCalls:
\* upstream requests issued; upReq: the body of the upstream request (<<>>: none
\* issued); upFailed: the upstream body failed; lines: the number of
\* upstream lines read; frames: those lines, each with whether a chunk boundary fell
\* inside it (recorded in the specifications whose properties read it)
NewSrv(body) ==
    [pc |-> "recv", status |-> 0, out |-> <<>>, closed |-> FALSE, body |-> body,
     upCalls |-> 0, upReq |-> <<>>, up |-> "none", upFailed |-> FALSE, lines |-> 0,
     frames |-> <<>>]

\* res.write(`data: ${JSON.stringify(ev)}\n\n`)
Write(s, evs) == [s EXCEPT !.out = @ \o evs]

\* the catch block: one error event with err.message, then res.end()
RelayCatch(s, message) ==
    [Write(s, <<ErrorEv(message)>>) EXCEPT !.closed = TRUE, !.pc = "closed"]

\* the handler up to the first await: headers flushed, cleanMessages built, fetch issued
RelayStartNoHeaders(s) ==
    IF CleanThrows(s.body) \/ SystemThrows(s.body)
    THEN [s EXCEPT !.status = 500, !.closed = TRUE, !.pc = "closed"]
    ELSE [s EXCEPT !.status = 200, !.pc = "fetch", !.upCalls = @ + 1,
                   !.upReq = <<RequestBody(s.body)>>]

RelayStart(s) ==
    LET h == [s EXCEPT !.status = 200]
    IN  IF CleanThrows(s.body) \/ SystemThrows(s.body)
        THEN RelayCatch(h, <<"TypeError">>)
        ELSE [h EXCEPT !.pc = "fetch", !.upCalls = @ + 1,
                       !.upReq = <<RequestBody(s.body)>>]

\* the branch `if (!response.ok)`: the body is read once; response.json() may throw,
\* and so may error.error when the body is the JSON value null
RelayNonOkNoReturn(s, eb) ==
    [Write(s, <<ErrorEv(IF eb.message # <<>> THEN eb.message ELSE <<"API error">>)>>)
        EXCEPT !.pc = "stream"]

RelayNonOk(s, eb) ==
    CASE eb.kind = "notJson" -> RelayCatch(s, <<"SyntaxError">>)
      [] eb.kind = "null" -> RelayCatch(s, <<"TypeError">>)
      [] OTHER ->
            [Write(s, <<ErrorEv(IF eb.message # <<>> THEN eb.message ELSE <<"API error">>)>>)
                EXCEPT !.closed = TRUE, !.pc = "closed"]

\* the lines decoder.decode(value).split("\n") yields for one upstream line: the line
\* itself when it lies within one chunk; when a chunk ends inside it, its head (an
\* incomplete payload, which does not parse) in one chunk and its tail (which does not
\* start with `data: `) in the next
Pieces(f, cut) ==
    IF ~cut THEN <<f>>
    ELSE <<IF f.line = "data" THEN BadFrame ELSE EventLine, EventLine>>

\* the body of `for (const line of ...)`, with JSON.parse failing on a bad payload
TranscodeLineUnguarded(f) ==
    IF f.line # "data" \/ f.payload = "DONE" THEN <<>>
    ELSE IF f.payload = "bad" THEN <<ErrorEv(<<"SyntaxError">>)>>
    ELSE IF f.payload = "null" THEN <<ErrorEv(<<"TypeError">>)>>
    ELSE (IF f.type = "content_block_delta" /\ f.deltaType = "text_delta"
          THEN <<TextEv(f.text)>> ELSE <<>>)
      \o (IF f.type = "message_delta" /\ f.usage # <<>>
          THEN <<UsageEv(f.usage[1])>> ELSE <<>>)
      \o (IF f.type = "message_start" /\ f.usage # <<>>
          THEN <<UsageStartEv(f.usage[1])>> ELSE <<>>)

TranscodeLine(f) ==
    IF f.line # "data" \/ f.payload \in {"DONE", "bad", "null"} THEN <<>>
    ELSE (IF f.type = "content_block_delta" /\ f.deltaType = "text_delta"
          THEN <<TextEv(f.text)>> ELSE <<>>)
      \o (IF f.type = "message_delta" /\ f.usage # <<>>
          THEN <<UsageEv(f.usage[1])>> ELSE <<>>)
      \o (IF f.type = "message_start" /\ f.usage # <<>>
          THEN <<UsageStartEv(f.usage[1])>> ELSE <<>>)

\* one upstream line through the reader loop
RelayLineAbortOnBad(s, f, cut) ==
    LET ps == Pieces(f, cut)
    IN  IF \E i \in DOMAIN ps : ps[i].payload \in {"bad", "null"}
        THEN [RelayCatch(s, <<"SyntaxError">>) EXCEPT !.lines = @ + 1]
        ELSE [Write(s, Flatten([i \in DOMAIN ps |-> TranscodeLine(ps[i])]))
                EXCEPT !.lines = @ + 1]

RelayLine(s, f, cut) ==
    LET ps == Pieces(f, cut)
    IN  [Write(s, Flatten([i \in DOMAIN ps |-> TranscodeLine(ps[i])]))
            EXCEPT !.lines = @ + 1]

\* reader.read() reports done: the done event, then res.end()
RelayEndThenText(s) ==
    [Write(s, <<DoneEv, TextEv(<<"a">>)>>) EXCEPT !.closed = TRUE, !.pc = "closed"]

RelayEnd(s) == [Write(s, <<DoneEv>>) EXCEPT !.closed = TRUE, !.pc = "closed"]

----------------------------------------------------------------------------
(* Server actions *)

\* the handler runs to its first await
SrvStart(r) ==
    /\ srv[r].pc = "recv"
    /\ srv' = [srv EXCEPT ![r] = RelayStart(@)]
    /\ UNCHANGED clientVars

\* fetch rejects: no upstream response
SrvFetchFail(r) ==
    /\ srv[r].pc = "fetch"
    /\ srv' = [srv EXCEPT ![r] = RelayCatch(@, <<"fetch failed">>)]
    /\ UNCHANGED clientVars

\* fetch resolves with a success status
SrvResponseOk(r) ==
    /\ srv[r].pc = "fetch"
    /\ srv' = [srv EXCEPT ![r] = [@ EXCEPT !.pc = "stream", !.up = "ok"]]
    /\ UNCHANGED clientVars

\* fetch resolves with a non-success status and error body eb
SrvResponseNonOk(r, eb) ==
    /\ srv[r].pc = "fetch"
    /\ srv' = [srv EXCEPT ![r] = RelayNonOk([@ EXCEPT !.up = "nonok"], eb)]
    /\ UNCHANGED clientVars

\* the reader loop handles upstream line f, one of at most n; keep: the line is
\* recorded in the history of the upstream
SrvLine(r, f, cut, n, keep) ==
    /\ srv[r].pc = "stream"
    /\ srv[r].lines < n
    /\ srv' = [srv EXCEPT ![r] =
                [RelayLine(@, f, cut) EXCEPT
                    !.frames = IF keep THEN Append(@, [frame |-> f, cut |-> cut]) ELSE @]]
    /\ UNCHANGED clientVars

\* the upstream body ends
SrvEnd(r) ==
    /\ srv[r].pc = "stream"
    /\ srv' = [srv EXCEPT ![r] = RelayEnd(@)]
    /\ UNCHANGED clientVars

\* reader.read() rejects: transport failure mid-stream
SrvReadFail(r) ==
    /\ srv[r].pc = "stream"
    /\ srv' = [srv EXCEPT ![r] = RelayCatch([@ EXCEPT !.upFailed = TRUE], <<"terminated">>)]
    /\ UNCHANGED clientVars

\* POST /api/conversations by user u with the id chosen by the client: the insert
\* fails on the primary key when the id is taken
DbCreate(u, id) ==
    /\ db' = IF id \in DOMAIN db.convs
             THEN [db EXCEPT !.reply = Reply(u, 500, {}, <<>>)]
             ELSE [db EXCEPT
                    !.convs = [i \in DOMAIN db.convs \cup {id} |->
                                IF i = id
                                THEN [owner |-> u, title |-> <<"New conversation">>,
                                      updatedAt |-> now]
                                ELSE db.convs[i]],
                    !.reply = Reply(u, 200, {}, <<>>)]
    /\ UNCHANGED <<conversations, activeId, streaming, abortRef, req, srv, nextId, storage,
                   now, http>>

\* GET /api/conversations by user u
DbList(u) ==
    /\ db' = [db EXCEPT !.reply = Reply(u, 200, OwnedBy(db, u), <<>>)]
    /\ UNCHANGED <<conversations, activeId, streaming, abortRef, req, srv, nextId, storage,
                   now, http>>

\* GET /api/conversations/:id by user u
DbFetch(u, id) ==
    /\ db' = [db EXCEPT !.reply =
                IF id \in OwnedBy(db, u)
                THEN Reply(u, 200, {id}, TurnsOf(db, id))
                ELSE Reply(u, 404, {}, <<>>)]
    /\ UNCHANGED <<conversations, activeId, streaming, abortRef, req, srv, nextId, storage,
                   now, http>>

\* PATCH /api/conversations/:id by user u with a title
DbPatch(u, id, title) ==
    /\ db' = [db EXCEPT
                !.convs = [i \in DOMAIN db.convs |->
                            IF i = id /\ db.convs[i].owner = u
                            THEN [db.convs[i] EXCEPT !.title = title, !.updatedAt = now]
                            ELSE db.convs[i]],
                !.reply = Reply(u, 200, {}, <<>>)]
    /\ UNCHANGED <<conversations, activeId, streaming, abortRef, req, srv, nextId, storage,
                   now, http>>

\* DELETE /api/conversations/:id by user u; the rows of messages go with the row
\* they reference (ON DELETE CASCADE)
DbDelete(u, id) ==
    /\ db' = IF id \in OwnedBy(db, u)
             THEN [db EXCEPT
                    !.convs = [i \in DOMAIN db.convs \ {id} |-> db.convs[i]],
                    !.msgs = SelectSeq(db.msgs, LAMBDA m : m.conv # id),
                    !.reply = Reply(u, 200, {}, <<>>)]
             ELSE [db EXCEPT !.reply = Reply(u, 200, {}, <<>>)]
    /\ UNCHANGED <<conversations, activeId, streaming, abortRef, req, srv, nextId, storage,
                   now, http>>

\* POST /api/conversations/:id/messages by user u, one of at most n rows: the insert
\* fails on the foreign key when no conversation has the id
DbAppend(u, id, content, n) ==
    /\ Len(db.msgs) < n
    /\ db' = IF id \notin DOMAIN db.convs
             THEN [db EXCEPT !.reply = Reply(u, 500, {}, <<>>)]
             ELSE [db EXCEPT
                    !.msgs = Append(@, [conv |-> id, username |-> u, content |-> content]),
                    !.convs[id].updatedAt = now,
                    !.reply = Reply(u, 200, {}, <<>>)]
    /\ UNCHANGED <<conversations, activeId, streaming, abortRef, req, srv, nextId, storage,
                   now, http>>

\* the requests an HTTP client sends in SpecAuth
HttpTokens == {<<>>, <<"">>, <<Secret>>, <<"bad">>}

HttpReqs ==
    {HttpReq("POST", p, t, <<>>, <<>>, NoUsername) :
        p \in {<<"/api", "/chat">>, <<"/API", "/chat">>, <<"/other">>}, t \in HttpTokens}
    \cup {HttpReq("GET", <<"/api", "/conversations">>, t, x, <<>>, NoUsername) :
            t \in HttpTokens, x \in {<<>>, <<"bob">>}}
    \cup {HttpReq("GET", p, t, <<>>, <<>>, NoUsername) :
            p \in {<<"/health">>, <<"/Health">>, <<"/">>, <<"/api", "/chat">>},
            t \in {<<>>, <<Secret>>}}
    \cup {HttpReq("POST", p, <<>>, <<>>, pw, u) :
            p \in {<<"/api", "/auth">>, <<"/API", "/auth">>},
            pw \in {<<>>, <<Secret>>, <<"bad">>},
            u \in {NoUsername, Username(<<" ">>), Username(<<" ", "B", "o">>),
                   NumberUsername}}

\* the server receives request q, one of at most n; express.json and cors pass it on
HttpReceive(q, n) ==
    /\ http.stage \in {"none", "done"}
    /\ http.n < n
    /\ http' = Http(http.n + 1, http.secret, "health", q, 0, NoRes, "none")
    /\ UNCHANGED <<conversations, activeId, streaming, abortRef, req, nextId, storage, now,
                   srv, db>>

HttpHealth ==
    /\ http.stage = "health"
    /\ http' = HealthRoute(http)
    /\ UNCHANGED <<conversations, activeId, streaming, abortRef, req, nextId, storage, now,
                   srv, db>>

HttpStatic ==
    /\ http.stage = "static"
    /\ http' = StaticFiles(http)
    /\ UNCHANGED <<conversations, activeId, streaming, abortRef, req, nextId, storage, now,
                   srv, db>>

HttpPasswordCheck ==
    /\ http.stage = "auth"
    /\ http' = PasswordCheck(http)
    /\ UNCHANGED <<conversations, activeId, streaming, abortRef, req, nextId, storage, now,
                   srv, db>>

\* the router runs the handler of the route; that of /api/chat is a new invocation
\* of the relay
HttpRoute ==
    /\ http.stage = "route"
    /\ http' = Routes(http)
    /\ srv' = IF RouteOf(http.q) = "chat"
              THEN Append(srv, NewSrv(Body("array", <<>>, NoSystem))) ELSE srv
    /\ UNCHANGED <<conversations, activeId, streaming, abortRef, req, nextId, storage, now,
                   db>>

----------------------------------------------------------------------------
(* Client: App (multi-conversation version)                                *)

TitleMax == 40

\* `…`, one token of the title
Ellipsis == "..."

DefaultTitle == <<"New conversation">>

\* MODELS[0].id
DefaultModel == "claude-opus-4-5-20251101"

\* texts the user may have typed when sendMessage is invoked
Inputs == {<<" ">>, <<"h", " ">>}

Turn(role, content, isStreaming, usage) ==
    [role |-> role, content |-> content, streaming |-> isStreaming, usage |-> usage]

UserTurn(text) == Turn("user", text, FALSE, <<>>)

Placeholder == Turn("assistant", <<>>, TRUE, <<>>)

ErrorTurn(message) == Turn("assistant", <<ErrPrefix>> \o message, FALSE, <<>>)

\* newConversation() at time t; createdAt is left out
NewConversation(id, t) ==
    [id |-> id, title |-> DefaultTitle, messages |-> <<>>, system |-> <<>>,
     model |-> DefaultModel, updatedAt |-> t]

\* text.slice(0, 40) + (text.length > 40 ? "…" : "") of the first user Turn
TitleFromMessagesNoEllipsis(messages) ==
    LET us == {i \in DOMAIN messages : messages[i].role = "user"}
    IN  IF us = {} THEN DefaultTitle
        ELSE LET text == messages[CHOOSE i \in us : \A j \in us : i <= j].content
             IN  SubSeq(text, 1, IF Len(text) > TitleMax THEN TitleMax ELSE Len(text))

TitleFromMessages(messages) ==
    LET us == {i \in DOMAIN messages : messages[i].role = "user"}
    IN  IF us = {} THEN DefaultTitle
        ELSE LET text == messages[CHOOSE i \in us : \A j \in us : i <= j].content
             IN  SubSeq(text, 1, IF Len(text) > TitleMax THEN TitleMax ELSE Len(text))
                    \o (IF Len(text) > TitleMax THEN <<Ellipsis>> ELSE <<>>)

\* { ...usageData, ...parsed.usage }
MergeUsageKeepFirst(a, b) == a @@ b

MergeUsage(a, b) == b @@ a

\* conversations.find((c) => c.id === id)
HasConvo(convs, id) == \E i \in DOMAIN convs : convs[i].id = id

FindConvo(convs, id) == convs[CHOOSE i \in DOMAIN convs : convs[i].id = id]

\* the elements of the conversations array
Convos(convs) == {convs[i] : i \in DOMAIN convs}

\* prev.map((c) => c.id === id ? F(c) : c), F a function on Convos(convs)
MapConvo(convs, id, F) ==
    [i \in DOMAIN convs |-> IF convs[i].id = id THEN F[convs[i]] ELSE convs[i]]

\* prev.filter((c) => c.id !== id)
RECURSIVE RemoveConvo(_, _)
RemoveConvo(convs, id) ==
    IF convs = <<>> THEN <<>>
    ELSE IF Head(convs).id = id THEN RemoveConvo(Tail(convs), id)
    ELSE <<Head(convs)>> \o RemoveConvo(Tail(convs), id)

\* msgs[msgs.length - 1] = turn (on an empty array this adds no element)
SetLast(msgs, turn) == IF msgs = <<>> THEN msgs ELSE [msgs EXCEPT ![Len(msgs)] = turn]

\* the updater of stopStreaming: if (last?.streaming) msgs[last] = { ...last, streaming: false }
ClearLastMarking(msgs) ==
    IF msgs = <<>> THEN msgs
    ELSE [msgs EXCEPT ![Len(msgs)] =
            [@ EXCEPT !.streaming = FALSE, !.content = @ \o <<"#">>]]

ClearLast(msgs) ==
    IF msgs # <<>> /\ Last(msgs).streaming
    THEN [msgs EXCEPT ![Len(msgs)] = [@ EXCEPT !.streaming = FALSE]]
    ELSE msgs

\* a sendMessage invocation: currentId, its position, fullText and usageData
NewReq(convId) ==
    [convId |-> convId, pc |-> "fetch", fullText |-> <<>>, usageData |-> EmptyUsage]

\* the invocation has returned: its local variables are gone
Returned(q, pc) == [NewReq(q.convId) EXCEPT !.pc = pc]

\* the invocation is parked at `await fetch` or `await reader.read()`
Outstanding(r) == req[r].pc \in {"fetch", "reading"}

\* the client state the handlers read and write
Cur ==
    [conversations |-> conversations, activeId |-> activeId, streaming |-> streaming,
     abortRef |-> abortRef, req |-> req, nextId |-> nextId, now |-> now,
     storage |-> storage]

\* JSON.stringify(convos) and JSON.parse of it: every property of every conversation
\* and of every Turn is written and read back
SaveConversations(convs) ==
    [i \in DOMAIN convs |->
        [id |-> convs[i].id, title |-> convs[i].title, system |-> convs[i].system,
         model |-> convs[i].model, updatedAt |-> convs[i].updatedAt,
         messages |-> [j \in DOMAIN convs[i].messages |->
                        [role |-> convs[i].messages[j].role,
                         content |-> convs[i].messages[j].content,
                         streaming |-> convs[i].messages[j].streaming,
                         usage |-> convs[i].messages[j].usage]]]]

Commit(st) ==
    /\ conversations' = st.conversations
    /\ activeId' = st.activeId
    /\ streaming' = st.streaming
    /\ abortRef' = st.abortRef
    /\ req' = st.req
    /\ nextId' = st.nextId
    /\ storage' = SaveConversations(st.conversations)
    /\ UNCHANGED <<now, http, db>>

\* abort() that leaves the invocation parked
AbortLeavesParked(rq, r) == rq

\* controller.abort(): a pending fetch or reader.read() of the request rejects with an
\* AbortError inside the call, the response body is errored and what it had queued is
\* discarded, and the continuation of sendMessage runs before any other task: its
\* catch block ignores the AbortError and setStreaming(false) follows
Abort(rq, r) ==
    IF r # 0 /\ rq[r].pc \in {"fetch", "reading"}
    THEN [rq EXCEPT ![r] = Returned(@, "aborted")]
    ELSE rq

\* stopStreaming()
StopStreamingEffect(st) ==
    [st EXCEPT !.req = Abort(@, st.abortRef),
               !.streaming = FALSE,
               !.conversations =
                    MapConvo(@, st.activeId,
                        [c \in Convos(st.conversations) |->
                            [c EXCEPT !.messages = ClearLast(@)]])]

\* updateActiveConvo(updater), F the updater as a function on EditDomain(st)
EditDomain(st) == Convos(st.conversations) \cup {NewConversation(st.nextId, st.now)}

UpdateActiveConvoEffect(st, F) ==
    IF st.activeId = NoId
    THEN [st EXCEPT
            !.conversations =
                <<[F[NewConversation(st.nextId, st.now)] EXCEPT !.updatedAt = st.now]>> \o @,
            !.activeId = st.nextId,
            !.nextId = @ + 1]
    ELSE [st EXCEPT
            !.conversations =
                MapConvo(@, st.activeId,
                    [c \in Convos(st.conversations) |->
                        [F[c] EXCEPT !.updatedAt = st.now]])]

\* updateActiveConvo((c) => ({ ...c, model }))
SetModelEffect(st, m) ==
    UpdateActiveConvoEffect(st, [c \in EditDomain(st) |-> [c EXCEPT !.model = m]])

\* updateActiveConvo((c) => ({ ...c, system }))
SetSystemEffect(st, text) ==
    UpdateActiveConvoEffect(st, [c \in EditDomain(st) |-> [c EXCEPT !.system = text]])

\* renameConvo(id, title)
RenameConvoEffect(st, id, title) ==
    [st EXCEPT !.conversations =
        MapConvo(@, id, [c \in Convos(st.conversations) |-> [c EXCEPT !.title = title]])]

\* loadConversations(): JSON.parse of the stored value
LoadConversations(stored) ==
    [i \in DOMAIN stored |->
        [id |-> stored[i].id, title |-> stored[i].title, system |-> stored[i].system,
         model |-> stored[i].model, updatedAt |-> stored[i].updatedAt,
         messages |-> stored[i].messages]]

\* the initial state of App, built from localStorage
ReloadEffect(st) ==
    [st EXCEPT
        !.conversations = LoadConversations(st.storage),
        !.activeId = IF st.storage = <<>> THEN NoId ELSE st.storage[1].id,
        !.streaming = FALSE,
        !.abortRef = 0,
        !.req = [r \in DOMAIN st.req |-> Returned(st.req[r], "unloaded")]]

\* the guard of sendMessage: if (!input.trim() || streaming) return
CanSendUnlessBlank(input, st) == Trim(input) # <<>>

CanSend(input, st) == Trim(input) # <<>> /\ ~st.streaming

\* sendMessage() up to `await fetch`, for a request to be numbered r
SendMessageEffectDropsHistory(st, input, r) ==
    LET fresh == st.activeId = NoId
        currentId == IF fresh THEN st.nextId ELSE st.activeId
        withNew == IF fresh THEN <<NewConversation(currentId, st.now)>> \o st.conversations
                   ELSE st.conversations
        newMessages == <<UserTurn(Trim(input))>>
    IN  [st EXCEPT
            !.conversations =
                MapConvo(withNew, currentId,
                    [c \in Convos(withNew) |-> [c EXCEPT
                        !.messages = Append(newMessages, Placeholder),
                        !.title = IF c.messages = <<>>
                                  THEN TitleFromMessages(newMessages) ELSE c.title,
                        !.updatedAt = st.now]]),
            !.activeId = currentId,
            !.nextId = IF fresh THEN @ + 1 ELSE @,
            !.streaming = TRUE,
            !.abortRef = r,
            !.req = Append(@, NewReq(currentId))]

SendMessageEffect(st, input, r) ==
    LET fresh == st.activeId = NoId
        currentId == IF fresh THEN st.nextId ELSE st.activeId
        withNew == IF fresh THEN <<NewConversation(currentId, st.now)>> \o st.conversations
                   ELSE st.conversations
        currentMessages == IF HasConvo(st.conversations, currentId)
                           THEN FindConvo(st.conversations, currentId).messages ELSE <<>>
        newMessages == Append(currentMessages, UserTurn(Trim(input)))
    IN  [st EXCEPT
            !.conversations =
                MapConvo(withNew, currentId,
                    [c \in Convos(withNew) |-> [c EXCEPT
                        !.messages = Append(newMessages, Placeholder),
                        !.title = IF c.messages = <<>>
                                  THEN TitleFromMessages(newMessages) ELSE c.title,
                        !.updatedAt = st.now]]),
            !.activeId = currentId,
            !.nextId = IF fresh THEN @ + 1 ELSE @,
            !.streaming = TRUE,
            !.abortRef = r,
            !.req = Append(@, NewReq(currentId))]

\* the messages of the request body sendMessage posts
SentMessages(st, input) ==
    Append(IF HasConvo(st.conversations, st.activeId)
           THEN FindConvo(st.conversations, st.activeId).messages ELSE <<>>,
           UserTurn(Trim(input)))

\* the system prompt of the request body: currentConvo?.system || ""
SentSystem(st) ==
    IF HasConvo(st.conversations, st.activeId)
    THEN FindConvo(st.conversations, st.activeId).system ELSE <<>>

\* JSON.stringify of the Turns, as the handler reads them
Wire(messages) ==
    [i \in DOMAIN messages |->
        Msg(messages[i].role, Str(messages[i].content), messages[i].streaming)]

\* the reader loop of sendMessage applies relay event ev of request r
ApplyEventErrorKeepsText(st, r, ev) ==
    LET q == st.req[r]
        text == IF ev.type = "text" THEN q.fullText \o ev.text ELSE q.fullText
        usage == IF ev.type \in {"usage_start", "usage"}
                 THEN MergeUsage(q.usageData, ev.usage) ELSE q.usageData
        turn == CASE ev.type = "text" -> <<Turn("assistant", text, TRUE, <<>>)>>
                  [] ev.type = "done" -> <<Turn("assistant", text, FALSE, <<usage>>)>>
                  [] ev.type = "error" ->
                        <<Turn("assistant", text \o <<ErrPrefix>> \o ev.error, FALSE, <<>>)>>
                  [] OTHER -> <<>>
    IN  [st EXCEPT
            !.req[r].fullText = text,
            !.req[r].usageData = usage,
            !.conversations =
                IF turn = <<>> THEN @
                ELSE MapConvo(@, q.convId,
                        [c \in Convos(st.conversations) |->
                            [c EXCEPT !.messages = SetLast(@, turn[1]),
                                      !.updatedAt = IF ev.type = "done" THEN st.now ELSE @]])]

\* the event handling with the updaters mapping the active conversation
ApplyEventToActive(st, r, ev) ==
    LET q == st.req[r]
        text == IF ev.type = "text" THEN q.fullText \o ev.text ELSE q.fullText
        usage == IF ev.type \in {"usage_start", "usage"}
                 THEN MergeUsage(q.usageData, ev.usage) ELSE q.usageData
        turn == CASE ev.type = "text" -> <<Turn("assistant", text, TRUE, <<>>)>>
                  [] ev.type = "done" -> <<Turn("assistant", text, FALSE, <<usage>>)>>
                  [] ev.type = "error" -> <<ErrorTurn(ev.error)>>
                  [] OTHER -> <<>>
    IN  [st EXCEPT
            !.req[r].fullText = text,
            !.req[r].usageData = usage,
            !.conversations =
                IF turn = <<>> THEN @
                ELSE MapConvo(@, st.activeId,
                        [c \in Convos(st.conversations) |->
                            [c EXCEPT !.messages = SetLast(@, turn[1]),
                                      !.updatedAt = IF ev.type = "done" THEN st.now ELSE @]])]

ApplyEvent(st, r, ev) ==
    LET q == st.req[r]
        text == IF ev.type = "text" THEN q.fullText \o ev.text ELSE q.fullText
        usage == IF ev.type \in {"usage_start", "usage"}
                 THEN MergeUsage(q.usageData, ev.usage) ELSE q.usageData
        turn == CASE ev.type = "text" -> <<Turn("assistant", text, TRUE, <<>>)>>
                  [] ev.type = "done" -> <<Turn("assistant", text, FALSE, <<usage>>)>>
                  [] ev.type = "error" -> <<ErrorTurn(ev.error)>>
                  [] OTHER -> <<>>
    IN  [st EXCEPT
            !.req[r].fullText = text,
            !.req[r].usageData = usage,
            !.conversations =
                IF turn = <<>> THEN @
                ELSE MapConvo(@, q.convId,
                        [c \in Convos(st.conversations) |->
                            [c EXCEPT !.messages = SetLast(@, turn[1]),
                                      !.updatedAt = IF ev.type = "done" THEN st.now ELSE @]])]

\* the events JSON.parse yields for one line of the response: none when a chunk
\* boundary falls inside the line (neither piece parses)
ParseLine(ev, cut) == IF cut THEN <<>> ELSE <<ev>>

\* the reader may take the next chunk: the invocation is at `await reader.read()`
CanReadAfterAbort(r) == req[r].pc \in {"reading", "aborted"}

CanRead(r) == req[r].pc = "reading"

\* the catch block alone, without setStreaming(false)
FailEffectKeepsFlag(st, r, message) ==
    [st EXCEPT
        !.conversations =
            MapConvo(@, st.req[r].convId,
                [c \in Convos(st.conversations) |->
                    [c EXCEPT !.messages = SetLast(@, ErrorTurn(message))]]),
        !.req[r] = Returned(@, "finished")]

\* the catch block for an error that is not an AbortError, then setStreaming(false)
FailEffect(st, r, message) ==
    [st EXCEPT
        !.conversations =
            MapConvo(@, st.req[r].convId,
                [c \in Convos(st.conversations) |->
                    [c EXCEPT !.messages = SetLast(@, ErrorTurn(message))]]),
        !.req[r] = Returned(@, "finished"),
        !.streaming = FALSE]

\* newChat()
NewChatEffect(st) ==
    [st EXCEPT !.conversations = <<NewConversation(st.nextId, st.now)>> \o @,
               !.activeId = st.nextId,
               !.nextId = @ + 1]

\* selectConvo(id)
SelectConvoEffect(st, id) ==
    [(IF st.streaming THEN StopStreamingEffect(st) ELSE st) EXCEPT !.activeId = id]

\* deleteConvo(id)
DeleteConvoEffect(st, id) ==
    LET rest == RemoveConvo(st.conversations, id)
    IN  [st EXCEPT !.conversations = rest,
                   !.activeId = IF st.activeId = id
                                THEN (IF rest # <<>> THEN rest[1].id ELSE NoId) ELSE @]

\* clearConversation()
ClearConversationEffect(st) ==
    LET s1 == IF st.streaming THEN StopStreamingEffect(st) ELSE st
    IN  IF ~HasConvo(st.conversations, st.activeId) THEN s1
        ELSE [s1 EXCEPT !.conversations =
                MapConvo(@, st.activeId,
                    [c \in Convos(s1.conversations) |->
                        [c EXCEPT !.messages = <<>>, !.title = DefaultTitle,
                                  !.updatedAt = st.now]])]

----------------------------------------------------------------------------
(* Client actions *)

\* what is left of a handler invocation for a client that holds its connection no
\* longer: the events that were on their way to it
Dropped(s) ==
    [NewSrv(Body("array", <<>>, NoSystem)) EXCEPT !.pc = "dropped", !.out = s.out]

\* the connections after a client step that leaves the requests as rq
Hangup(rq) ==
    [r \in DOMAIN srv |->
        IF rq[r].pc \in {"fetch", "reading"} THEN srv[r] ELSE Dropped(srv[r])]

\* sendMessage() with `input` typed, one of at most n accepted invocations
SendMessage(input, n) ==
    /\ CanSend(input, Cur)
    /\ Len(req) < n
    /\ activeId = NoId => nextId <= MaxConvos
    /\ Commit(SendMessageEffect(Cur, input, Len(req) + 1))
    /\ srv' = Append(srv, NewSrv(Body("array", Wire(SentMessages(Cur, input)),
                                       System("string", SentSystem(Cur)))))

StopStreaming ==
    /\ Commit(StopStreamingEffect(Cur))
    /\ srv' = Hangup(req')

NewChat ==
    /\ nextId <= MaxConvos
    /\ Commit(NewChatEffect(Cur))
    /\ UNCHANGED srv

SelectConvo(id) ==
    /\ HasConvo(conversations, id)
    /\ Commit(SelectConvoEffect(Cur, id))
    /\ srv' = Hangup(req')

DeleteConvo(id) ==
    /\ HasConvo(conversations, id)
    /\ Commit(DeleteConvoEffect(Cur, id))
    /\ UNCHANGED srv

ClearConversation ==
    /\ Commit(ClearConversationEffect(Cur))
    /\ srv' = Hangup(req')

\* commitEdit() of the list item of conversation id, with editVal in its input
RenameConvo(id, editVal) ==
    /\ HasConvo(conversations, id)
    /\ Trim(editVal) # <<>>
    /\ Commit(RenameConvoEffect(Cur, id, Trim(editVal)))
    /\ UNCHANGED srv

\* the model and the system prompt the controls show: those of the active
\* conversation, the defaults when there is none
ShownModel ==
    IF HasConvo(conversations, activeId)
    THEN FindConvo(conversations, activeId).model ELSE DefaultModel

ShownSystem ==
    IF HasConvo(conversations, activeId)
    THEN FindConvo(conversations, activeId).system ELSE <<>>

\* onChange of the model select: another option is chosen
SetModel(m) ==
    /\ m # ShownModel
    /\ activeId = NoId => nextId <= MaxConvos
    /\ Commit(SetModelEffect(Cur, m))
    /\ UNCHANGED srv

\* onChange of the system prompt textarea: its text is edited
SetSystem(text) ==
    /\ text # ShownSystem
    /\ activeId = NoId => nextId <= MaxConvos
    /\ Commit(SetSystemEffect(Cur, text))
    /\ UNCHANGED srv

\* the page is loaded again: the invocations of sendMessage are gone with the page and
\* their connections are closed, the state is built from localStorage
Reload ==
    /\ Commit(ReloadEffect(Cur))
    /\ srv' = Hangup(req')

\* time passes, up to n
Tick(n) ==
    /\ now < n
    /\ now' = now + 1
    /\ UNCHANGED <<conversations, activeId, streaming, abortRef, req, srv, nextId, storage,
                   http, db>>

\* fetch resolves once the response headers are there; the status is 200, so res.ok
ClientResponse(r) ==
    /\ req[r].pc = "fetch"
    /\ srv[r].status = 200
    /\ req' = [req EXCEPT ![r].pc = "reading"]
    /\ UNCHANGED <<conversations, activeId, streaming, abortRef, nextId, srv, storage,
                   now, http, db>>

\* fetch or reader.read() rejects with a network error
ClientFail(r) ==
    /\ Outstanding(r)
    /\ Commit(FailEffect(Cur, r, <<"Failed to fetch">>))
    /\ srv' = Hangup(req')

\* reader.read() yields the next relay event of the response
ClientRead(r, cut) ==
    /\ CanRead(r)
    /\ srv[r].out # <<>>
    /\ LET evs == ParseLine(Head(srv[r].out), cut)
       IN  Commit(IF evs = <<>> THEN Cur ELSE ApplyEvent(Cur, r, evs[1]))
    /\ srv' = [srv EXCEPT ![r].out = Tail(@)]

\* reader.read() reports done: the loop ends and setStreaming(false) runs
ClientEnd(r) ==
    /\ req[r].pc = "reading"
    /\ srv[r].closed
    /\ srv[r].out = <<>>
    /\ req' = [req EXCEPT ![r] = Returned(@, "finished")]
    /\ streaming' = FALSE
    /\ srv' = Hangup(req')
    /\ UNCHANGED <<conversations, activeId, abortRef, nextId, storage, now, http, db>>

ConvoIds == {conversations[i].id : i \in DOMAIN conversations}

\* the requests whose client still holds the connection; the steps a handler takes
\* after its client went away write to a closed socket and are not explored in Spec
Listening == {r \in DOMAIN srv : Outstanding(r)}

\* the non-success bodies the upstream sends in Spec
SpecErrBodies == {ErrBody("json", <<>>)}

----------------------------------------------------------------------------
(* Specifications *)

Init ==
    /\ conversations = <<>>
    /\ activeId = NoId
    /\ streaming = FALSE
    /\ abortRef = 0
    /\ req = <<>>
    /\ srv = <<>>
    /\ nextId = 1
    /\ storage = <<>>
    /\ now = 1
    /\ db = NoDb
    /\ http = NoHttp

\* one authenticated POST /api/chat from any HTTP client has reached the handler
InitRelay ==
    /\ conversations = <<>>
    /\ activeId = NoId
    /\ streaming = FALSE
    /\ abortRef = 0
    /\ req = <<>>
    /\ srv \in {<<NewSrv(b)>> : b \in HttpBodies}
    /\ nextId = 1
    /\ storage = <<>>
    /\ now = 1
    /\ db = NoDb
    /\ http = NoHttp

\* the server alone, with APP_PASSWORD configured or not, and HTTP clients
InitAuth ==
    /\ conversations = <<>>
    /\ activeId = NoId
    /\ streaming = FALSE
    /\ abortRef = 0
    /\ req = <<>>
    /\ srv = <<>>
    /\ nextId = 1
    /\ storage = <<>>
    /\ now = 1
    /\ db = NoDb
    /\ \E secret \in {<<>>, <<Secret>>} :
            http = Http(0, secret, "none", NoReq, 0, NoRes, "none")

AuthNext ==
    \/ \E q \in HttpReqs : HttpReceive(q, MaxHttp)
    \/ HttpHealth
    \/ HttpStatic
    \/ HttpPasswordCheck
    \/ HttpRoute

SpecAuth == InitAuth /\ [][AuthNext]_vars

\* models the select offers and texts the user types into the title and system fields
EditModels == {DefaultModel, "claude-haiku-4-5-20251001"}

EditTitles == {<<" ">>, <<" ", "t">>}

EditSystems == {<<>>, <<"s">>}

\* the user's actions, the clock and the reload of the page: no response arrives
EditNext ==
    \/ \E t \in Inputs : SendMessage(t, 1)
    \/ StopStreaming
    \/ NewChat
    \/ \E id \in ConvoIds : SelectConvo(id)
    \/ \E id \in ConvoIds : DeleteConvo(id)
    \/ ClearConversation
    \/ \E id \in ConvoIds, t \in EditTitles : RenameConvo(id, t)
    \/ \E m \in EditModels : SetModel(m)
    \/ \E t \in EditSystems : SetSystem(t)
    \/ Reload
    \/ Tick(MaxClock)

SpecEdit == Init /\ [][EditNext]_vars

\* the store alone, with two users, two ids and the clock
StoreNext ==
    \/ \E u \in {"u", "v"}, id \in 1..MaxConvos : DbCreate(u, id)
    \/ \E u \in {"u", "v"} : DbList(u)
    \/ \E u \in {"u", "v"}, id \in 1..MaxConvos : DbFetch(u, id)
    \/ \E u \in {"u", "v"}, id \in 1..MaxConvos : DbPatch(u, id, <<"t">>)
    \/ \E u \in {"u", "v"}, id \in 1..MaxConvos : DbDelete(u, id)
    \/ \E u \in {"u", "v"}, id \in 1..MaxConvos : DbAppend(u, id, <<"h">>, MaxDbMsgs)
    \/ Tick(MaxClock)

SpecStore == Init /\ [][StoreNext]_vars

\* the sends and the stop of the user, and the network: every way a request can end
LiveNext ==
    \/ \E t \in Inputs : SendMessage(t, MaxReqs)
    \/ StopStreaming
    \/ \E r \in DOMAIN req : ClientResponse(r)
    \/ \E r \in DOMAIN req : ClientFail(r)
    \/ \E r \in DOMAIN req, cut \in BOOLEAN : ClientRead(r, cut)
    \/ \E r \in DOMAIN req : ClientEnd(r)
    \/ \E r \in Listening : SrvStart(r)
    \/ \E r \in Listening : SrvFetchFail(r)
    \/ \E r \in Listening : SrvResponseOk(r)
    \/ \E r \in Listening, eb \in ErrBodies : SrvResponseNonOk(r, eb)
    \/ \E r \in Listening, f \in Frames : SrvLine(r, f, FALSE, MaxFrames, FALSE)
    \/ \E r \in Listening : SrvEnd(r)
    \/ \E r \in Listening : SrvReadFail(r)

\* the handler of the relay runs, the upstream answers or fails, its body ends or
\* fails, and the client is handed the response headers, every chunk and the end of
\* the response
LiveFairness ==
    /\ WF_vars(\E r \in Listening : SrvStart(r))
    /\ WF_vars(\E r \in Listening :
                    \/ SrvFetchFail(r)
                    \/ SrvResponseOk(r)
                    \/ \E eb \in ErrBodies : SrvResponseNonOk(r, eb))
    /\ WF_vars(\E r \in Listening : SrvEnd(r) \/ SrvReadFail(r))
    /\ WF_vars(\E r \in DOMAIN req : ClientResponse(r))
    /\ WF_vars(\E r \in DOMAIN req, cut \in BOOLEAN : ClientRead(r, cut))
    /\ WF_vars(\E r \in DOMAIN req : ClientEnd(r))

SpecLive == Init /\ [][LiveNext]_vars /\ LiveFairness

RelayNext ==
    \/ \E r \in DOMAIN srv : SrvStart(r)
    \/ \E r \in DOMAIN srv : SrvFetchFail(r)
    \/ \E r \in DOMAIN srv : SrvResponseOk(r)
    \/ \E r \in DOMAIN srv, eb \in ErrBodies : SrvResponseNonOk(r, eb)
    \/ \E r \in DOMAIN srv, f \in RelayFrames, cut \in BOOLEAN : SrvLine(r, f, cut, MaxRelayFrames, TRUE)
    \/ \E r \in DOMAIN srv : SrvEnd(r)
    \/ \E r \in DOMAIN srv : SrvReadFail(r)

SpecRelay == InitRelay /\ [][RelayNext]_vars

Next ==
    \/ \E t \in Inputs : SendMessage(t, MaxReqs)
    \/ StopStreaming
    \/ NewChat
    \/ \E id \in ConvoIds : SelectConvo(id)
    \/ \E id \in ConvoIds : DeleteConvo(id)
    \/ ClearConversation
    \/ \E r \in DOMAIN req : ClientResponse(r)
    \/ \E r \in DOMAIN req : ClientFail(r)
    \/ \E r \in DOMAIN req, cut \in BOOLEAN : ClientRead(r, cut)
    \/ \E r \in DOMAIN req : ClientEnd(r)
    \/ \E r \in Listening : SrvStart(r)
    \/ \E r \in Listening : SrvResponseOk(r)
    \/ \E r \in Listening, eb \in SpecErrBodies : SrvResponseNonOk(r, eb)
    \/ \E r \in Listening, f \in Frames : SrvLine(r, f, FALSE, MaxFrames, FALSE)
    \/ \E r \in Listening : SrvEnd(r)
    \/ \E r \in Listening : SrvReadFail(r)

Spec == Init /\ [][Next]_vars

\* one request from send to the end of its response, the upstream history recorded
NextE2E ==
    \/ \E t \in Inputs : SendMessage(t, 1)
    \/ \E r \in DOMAIN req : ClientResponse(r)
    \/ \E r \in DOMAIN req, cut \in BOOLEAN : ClientRead(r, cut)
    \/ \E r \in DOMAIN req : ClientEnd(r)
    \/ \E r \in Listening : SrvStart(r)
    \/ \E r \in Listening : SrvResponseOk(r)
    \/ \E r \in Listening, f \in E2EFrames, cut \in BOOLEAN :
            SrvLine(r, f, cut, MaxE2EFrames, TRUE)
    \/ \E r \in Listening : SrvEnd(r)

SpecE2E == Init /\ [][NextE2E]_vars

\* a text of n characters: "a" up to the title length, "b" beyond it
LongText(n) == [i \in 1..n |-> IF i <= TitleMax THEN "a" ELSE "b"]

\* texts the user may have typed in SpecSend: blank, short, of the title length, longer
SendInputs ==
    {<<" ">>, <<"h", "i">>, LongText(TitleMax), <<" ">> \o LongText(TitleMax + 5) \o <<" ">>}

\* the user's actions alone: no response arrives
SendNext ==
    \/ \E t \in SendInputs : SendMessage(t, MaxReqs)
    \/ StopStreaming
    \/ NewChat
    \/ \E id \in ConvoIds : SelectConvo(id)
    \/ \E id \in ConvoIds : DeleteConvo(id)
    \/ ClearConversation

SpecSend == Init /\ [][SendNext]_vars

\* the messages an HTTP client may put into req.body.messages
NormMsgs ==
    {Msg("user", Str(<<"x">>), FALSE),
     Msg("assistant", Str(<<"y">>), FALSE),
     Msg("user", Str(<<>>), FALSE),
     Msg("assistant", Str(<<>>), TRUE),
     Msg("assistant", Str(<<"y">>), TRUE),
     Msg("user", Blocks(<<<<"x">>, <<>>, <<"z">>>>), FALSE),
     Msg("user", Blocks(<<>>), FALSE),
     Msg("assistant", Blocks(<<<<>>>>), FALSE),
     Msg("user", OtherContent, FALSE),
     Msg("assistant", NullContent, FALSE)}

\* the values an HTTP client may put into req.body.system
NormSystems ==
    {NoSystem, System("string", <<>>), System("string", <<" ", " ">>),
     System("string", <<"s", " ">>), System("number", <<>>)}

\* the sequences of at most n elements of S
SeqsUpTo(S, n) == UNION {[1..k -> S] : k \in 0..n}

\* one authenticated POST /api/chat whose messages are an array of objects
InitNormalize ==
    /\ conversations = <<>>
    /\ activeId = NoId
    /\ streaming = FALSE
    /\ abortRef = 0
    /\ req = <<>>
    /\ srv \in {<<NewSrv(Body("array", ms, sys))>> :
                    ms \in SeqsUpTo(NormMsgs, MaxTurns), sys \in NormSystems}
    /\ nextId = 1
    /\ storage = <<>>
    /\ now = 1
    /\ db = NoDb
    /\ http = NoHttp

\* the handler up to the upstream response, and a response with an empty body
NormalizeNext ==
    \/ \E r \in DOMAIN srv : SrvStart(r)
    \/ \E r \in DOMAIN srv : SrvResponseOk(r)
    \/ \E r \in DOMAIN srv : SrvEnd(r)

SpecNormalize == InitNormalize /\ [][NormalizeNext]_vars

----------------------------------------------------------------------------
(* Properties of the relay *)

Terminals(evs) == {i \in DOMAIN evs : IsTerminal(evs[i])}

\* C2: the response of every /api/chat request that reaches the handler is an event
\* stream with status 200; while it is open no terminal event has been written, and
\* once it is closed exactly one terminal event (done or error) has been written and
\* it is the last event written.
C2_OneTerminalEvent ==
    \A r \in DOMAIN srv :
        LET s == srv[r]
        IN  /\ s.status \in {0, 200}
            /\ s.pc # "recv" => s.status = 200
            /\ s.closed <=> s.pc = "closed"
            /\ ~s.closed => Terminals(s.out) = {}
            /\ s.closed => Terminals(s.out) = {Len(s.out)}

\* a stream closed by a transport failure after events were relayed
C2_Witness ==
    \E r \in DOMAIN srv :
        /\ srv[r].closed /\ srv[r].upFailed
        /\ Len(srv[r].out) >= 2
        /\ Last(srv[r].out).type = "error"

\* C3: after a success response and without transport failure, no error event is ever
\* written, no done event is written while the upstream body lasts, and when the body
\* has ended exactly one done event has been written, as the last event.
C3_DoneOnceLast ==
    \A r \in DOMAIN srv :
        LET s == srv[r]
        IN  (s.up = "ok" /\ ~s.upFailed) =>
                /\ CountType(s.out, "error") = 0
                /\ ~s.closed => CountType(s.out, "done") = 0
                /\ s.closed => /\ CountType(s.out, "done") = 1
                               /\ Last(s.out).type = "done"

\* a closed stream whose upstream body held a malformed line, a [DONE] line, a line
\* of unknown shape and a line cut by a chunk boundary
C3_Witness ==
    \E r \in DOMAIN srv :
        LET s == srv[r]
        IN  /\ s.closed /\ s.up = "ok" /\ ~s.upFailed
            /\ \E i, j, k \in DOMAIN s.frames :
                  /\ s.frames[i].frame = BadFrame /\ ~s.frames[i].cut
                  /\ s.frames[j].frame \in {DoneFrame, PingFrame}
                  /\ s.frames[k].cut
                  /\ i # j /\ j # k /\ i # k

\* C4: after a non-success upstream response the stream is closed and holds exactly
\* one event, an error event (so no done, text or usage event), and exactly one
\* upstream request was issued.
C4_NonOkOneError ==
    \A r \in DOMAIN srv :
        LET s == srv[r]
        IN  /\ s.upCalls <= 1
            /\ s.up = "nonok" =>
                  /\ s.closed /\ s.pc = "closed"
                  /\ Len(s.out) = 1 /\ s.out[1].type = "error"
                  /\ s.upCalls = 1
                  /\ s.frames = <<>>

\* a non-success response whose body did not parse
C4_Witness ==
    \E r \in DOMAIN srv :
        /\ srv[r].up = "nonok"
        /\ srv[r].out = <<ErrorEv(<<"SyntaxError">>)>>

\* C25: when the upstream answers with a non-success status, the stream holds one
\* error event whose message is the message of the provider when its error body
\* carries one, and "API error" in every other case: a JSON body without message, a
\* body that is no JSON, an empty body.
C25_ProviderMessageOrApiError ==
    [][\A r \in DOMAIN srv : \A eb \in ErrBodies :
          SrvResponseNonOk(r, eb) =>
              srv'[r].out = <<ErrorEv(IF eb.kind = "json" /\ eb.message # <<>>
                                      THEN eb.message ELSE <<"API error">>)>>]_vars

\* a malformed frame: a data line whose payload is no JSON, or is JSON but no object,
\* or is an object of a type the relay does not know
Malformed(f) ==
    /\ f.line = "data"
    /\ \/ f.payload \in {"bad", "null"}
       \/ /\ f.payload = "json"
          /\ f.type \notin {"content_block_delta", "message_delta", "message_start"}

\* the events the reader loop writes for a history of upstream lines
RECURSIVE Relayed(_)
Relayed(fs) ==
    IF fs = <<>> THEN <<>>
    ELSE LET ps == Pieces(Head(fs).frame, Head(fs).cut)
         IN  Flatten([i \in DOMAIN ps |-> TranscodeLine(ps[i])]) \o Relayed(Tail(fs))

\* C27: for a success response, the events written other than done and error are
\* those the upstream lines give one by one, in the order of the lines: a text event
\* for a content delta with text, a usage event for a message delta with usage, a
\* usage_start event for a message start with usage, nothing for any other line; and
\* a line gives at most one event.
C27_PerFrameMapping ==
    \A r \in DOMAIN srv :
        LET s == srv[r]
        IN  /\ \A f \in RelayFrames : Len(TranscodeLine(f)) <= 1
            /\ s.up = "ok" =>
                  SelectSeq(s.out, LAMBDA e : ~IsTerminal(e)) =
                      Flatten([i \in DOMAIN s.frames |-> TranscodeLine(s.frames[i].frame)])

\* C28: the line `data: [DONE]` ends the upstream lines: it gives no event itself,
\* and no line read after it gives a text, usage or usage_start event, so the events
\* written other than done and error are those of the lines before the first [DONE].
C28_DoneEndsFrames ==
    \A r \in DOMAIN srv :
        LET s == srv[r]
            dones == {i \in DOMAIN s.frames : s.frames[i].frame = DoneFrame}
            first == CHOOSE i \in dones : \A j \in dones : i <= j
        IN  (s.up = "ok" /\ dones # {}) =>
                SelectSeq(s.out, LAMBDA e : ~IsTerminal(e)) =
                    Relayed(SubSeq(s.frames, 1, first - 1))

\* C31: the events written for a success response do not depend on where the chunk
\* boundaries fall in the upstream body: they are the events written when every line
\* of the same body arrives whole, so no text and no usage is lost at a boundary.
C31_ChunkingIndependent ==
    \A r \in DOMAIN srv :
        LET s == srv[r]
            whole == [i \in DOMAIN s.frames |-> [frame |-> s.frames[i].frame, cut |-> FALSE]]
        IN  (s.up = "ok" /\ ~s.upFailed) =>
                s.out = Relayed(whole) \o (IF s.closed THEN <<DoneEv>> ELSE <<>>)

\* C16: for a success response without transport failure, the events written are
\* those the well-formed lines of the upstream body give when the malformed lines are
\* taken out of it, followed by done once the body has ended; so a malformed line
\* gives no event, no error event, and does not change what the lines after it give.
C16_MalformedSkipped ==
    \A r \in DOMAIN srv :
        LET s == srv[r]
            wellFormed == SelectSeq(s.frames, LAMBDA x : ~Malformed(x.frame))
        IN  (s.up = "ok" /\ ~s.upFailed) =>
                /\ s.out = Relayed(wellFormed) \o (IF s.closed THEN <<DoneEv>> ELSE <<>>)
                /\ CountType(s.out, "error") = 0
                /\ s.pc \in {"stream", "closed"}
                /\ s.pc = "stream" => ~s.closed

\* a stream that ended with done after a line that is no JSON, a line `null` and
\* then a text line, of which only the text was relayed
C16_Witness ==
    \E r \in DOMAIN srv :
        /\ srv[r].closed /\ srv[r].up = "ok" /\ ~srv[r].upFailed
        /\ srv[r].frames = <<[frame |-> BadFrame, cut |-> FALSE],
                             [frame |-> NullFrame, cut |-> FALSE],
                             [frame |-> TextFrame(<<"a">>), cut |-> FALSE]>>
        /\ srv[r].out = <<TextEv(<<"a">>), DoneEv>>

----------------------------------------------------------------------------
(* Properties of the authentication *)

\* C23: a request to any route other than the auth endpoint whose x-auth-token header
\* is missing, or differs from APP_PASSWORD (as every header does when APP_PASSWORD is
\* not configured), is answered with 401 {error: "Unauthorized"} and no handler runs.
C23_UnauthorizedAnswers401 ==
    (/\ http.stage = "done"
     /\ RouteOf(http.q) # "auth"
     /\ http.q.token = <<>> \/ http.q.token # http.secret) =>
        /\ http.status = 401
        /\ http.res = [error |-> "Unauthorized"]
        /\ http.handler = "none"

\* C24: POST /api/auth answers success: true with the token only when the password
\* of the body equals APP_PASSWORD, whether a username is given or not; every other
\* auth request is answered with 401 and success: false.
C24_AuthAnswers ==
    (http.stage = "done" /\ http.handler = "auth") =>
        /\ "success" \in DOMAIN http.res
        /\ IF http.q.password # <<>> /\ http.q.password = http.secret
           THEN /\ http.status = 200
                /\ http.res.success
                /\ http.res.token = http.secret
           ELSE /\ http.status = 401
                /\ ~http.res.success
                /\ "token" \notin DOMAIN http.res

----------------------------------------------------------------------------
(* Properties of the conversation store *)

\* C36: a request of user U returns only conversations U owns and their Turns, and
\* leaves every conversation another user owns as it is: its row (title, updatedAt)
\* and its Turns.
C36_StoreIsolation ==
    [][db' # db =>
            LET u == db'.reply.user
            IN  /\ db'.reply.ids \subseteq OwnedBy(db, u)
                /\ \A i \in DOMAIN db'.reply.turns :
                        db'.reply.turns[i].conv \in OwnedBy(db, u)
                /\ \A id \in DOMAIN db.convs :
                        db.convs[id].owner # u =>
                            /\ id \in DOMAIN db'.convs
                            /\ db'.convs[id] = db.convs[id]
                            /\ TurnsOf(db', id) = TurnsOf(db, id)]_vars

----------------------------------------------------------------------------
(* Properties of the upstream request *)

\* C12: the messages sent upstream are the posted messages without those whose
\* streaming flag is true or whose content is empty (the empty string, or structured
\* content without text), in the posted order, each with its role and its text; so
\* they are not more than the posted ones and none has empty text.
C12_DropsStreamingAndEmpty ==
    \A r \in DOMAIN srv :
        srv[r].upReq # <<>> =>
            LET posted == srv[r].body.messages
                sent == srv[r].upReq[1].messages
                kept == SelectSeq(posted,
                            LAMBDA m : ~m.streaming /\ TextOf(m.content) # <<>>)
            IN  /\ Len(sent) = Len(kept)
                /\ Len(sent) <= Len(posted)
                /\ \A i \in DOMAIN sent :
                        /\ i \in DOMAIN kept
                        /\ sent[i].role = kept[i].role
                        /\ sent[i].content.text = TextOf(kept[i].content)
                        /\ sent[i].content.text # <<>>

\* the messages of an upstream request that carry the cache_control marker
Marked(sent) == {i \in DOMAIN sent : sent[i].content.cache_control # <<>>}

\* C13: in the messages sent upstream, a message is one text block with the
\* cache_control marker exactly when it is the last message and its role is user;
\* every other message has its text as a flat string and its role as posted; at most
\* one message carries the marker.
C13_MarkerIffLastUser ==
    \A r \in DOMAIN srv :
        srv[r].upReq # <<>> =>
            LET sent == srv[r].upReq[1].messages
                kept == SelectSeq(srv[r].body.messages, Kept)
            IN  /\ Len(sent) = Len(kept)
                /\ \A i \in DOMAIN sent :
                        /\ sent[i].role = kept[i].role
                        /\ (sent[i].content.kind = "blocks") <=>
                                (i = Len(sent) /\ sent[i].role = "user")
                        /\ (sent[i].content.cache_control = <<"ephemeral">>) <=>
                                (sent[i].content.kind = "blocks")
                        /\ sent[i].content.kind \in {"blocks", "string"}
                        /\ sent[i].content.kind = "string" =>
                                sent[i].content = Flat(TextOf(kept[i].content))
                /\ Cardinality(Marked(sent)) <= 1

\* an upstream request of three messages: a user message sent flat, an assistant
\* message, and a last user message that carries the marker
C13_Witness ==
    \E r \in DOMAIN srv :
        /\ srv[r].upReq # <<>>
        /\ LET sent == srv[r].upReq[1].messages
           IN  /\ Len(sent) = 3
               /\ sent[1] = [role |-> "user", content |-> Flat(<<"x">>)]
               /\ sent[2].role = "assistant"
               /\ sent[3] = [role |-> "user", content |-> Wrapped(<<"x", "z">>)]

\* C14 as stated: when the messages sent upstream hold a user message, the last user
\* message carries the marker and no other message does.
C14_LastUserMarked ==
    \A r \in DOMAIN srv :
        srv[r].upReq # <<>> =>
            LET sent == srv[r].upReq[1].messages
                us == {i \in DOMAIN sent : sent[i].role = "user"}
            IN  us # {} => Marked(sent) = {i \in us : \A j \in us : j <= i}

\* C14 amended: when the messages sent upstream hold a user message, then if the
\* last message is a user message it carries the marker and no other message does,
\* and if the last message is an assistant message no message carries the marker.
C14_LastUserMarkedIfLast ==
    \A r \in DOMAIN srv :
        srv[r].upReq # <<>> =>
            LET sent == srv[r].upReq[1].messages
                us == {i \in DOMAIN sent : sent[i].role = "user"}
            IN  us # {} =>
                    Marked(sent) = IF Len(sent) \in us THEN {Len(sent)} ELSE {}

\* an upstream request that holds a user message and ends with an assistant message
C14_Witness ==
    \E r \in DOMAIN srv :
        /\ srv[r].upReq # <<>>
        /\ LET sent == srv[r].upReq[1].messages
           IN  /\ Len(sent) = 2
               /\ sent[1].role = "user"
               /\ sent[2].role = "assistant"
               /\ Marked(sent) = {}

\* C15: the upstream request carries a system field exactly when the posted system
\* prompt is a string that is not empty after trimming; the field is then one text
\* block with the posted text and the cache_control marker; for a missing, empty or
\* whitespace-only prompt the field is absent.
C15_SystemIffNonBlank ==
    \A r \in DOMAIN srv :
        srv[r].upReq # <<>> =>
            LET posted == srv[r].body.system
                sent == srv[r].upReq[1].system
                blank == posted.kind = "missing" \/ Trim(posted.text) = <<>>
            IN  /\ posted.kind \in {"missing", "string"}
                /\ blank <=> sent = <<>>
                /\ ~blank => sent = <<[type |-> "text", text |-> posted.text,
                                       cache_control |-> <<"ephemeral">>]>>

\* an upstream request without system field for a whitespace-only prompt
C15_Witness ==
    \E r \in DOMAIN srv :
        /\ srv[r].upReq # <<>>
        /\ srv[r].body.system = System("string", <<" ", " ">>)
        /\ srv[r].upReq[1].system = <<>>
        /\ srv[r].upReq[1].messages # <<>>

----------------------------------------------------------------------------
(* Properties of the client *)

Messages(convs, id) == FindConvo(convs, id).messages

IsErrorTurn(t) == t.content # <<>> /\ Head(t.content) = ErrPrefix

ErrorTurns(convs) ==
    UNION {{<<i, j>> : j \in {k \in DOMAIN convs[i].messages :
                                    IsErrorTurn(convs[i].messages[k])}} :
                i \in DOMAIN convs}

\* C1: in every conversation, a Turn with streaming=true is the last Turn (so there
\* is at most one).
C1_StreamingOnlyLast ==
    \A i \in DOMAIN conversations :
        \A j \in DOMAIN conversations[i].messages :
            conversations[i].messages[j].streaming => j = Len(conversations[i].messages)

C6_StopKeepsPrefix ==
    [][\A r \in DOMAIN req :
            (/\ Outstanding(r)
             /\ HasConvo(conversations, req[r].convId)
             /\ Messages(conversations, req[r].convId) # <<>>
             /\ Last(Messages(conversations, req[r].convId)) =
                    Turn("assistant", req[r].fullText, TRUE, <<>>)
             /\ StopStreaming) =>
                LET before == Messages(conversations, req[r].convId)
                    after == Messages(conversations', req[r].convId)
                IN  /\ HasConvo(conversations', req[r].convId)
                    /\ Len(after) = Len(before)
                    /\ Last(after) = Turn("assistant", req[r].fullText, FALSE, <<>>)]_vars

\* C7: a step that changes the active conversation while a request is outstanding
\* leaves that request, and the conversation it was sent for (if it still exists),
\* as stopStreaming would: the request aborted, the last Turn with streaming=false
\* and its content unchanged.
C7_SwitchCancels ==
    [][\A r \in DOMAIN req :
            (Outstanding(r) /\ activeId' # activeId) =>
                LET stopped == StopStreamingEffect([Cur EXCEPT !.activeId = req[r].convId])
                IN  /\ req'[r] = stopped.req[r]
                    /\ HasConvo(conversations', req[r].convId) =>
                            Messages(conversations', req[r].convId) =
                                Messages(stopped.conversations, req[r].convId)]_vars

\* C8: at most one request is outstanding for a conversation, and while a request is
\* outstanding the guard of sendMessage rejects every input.
C8_OneOutstanding ==
    /\ \A r1, r2 \in DOMAIN req :
            (Outstanding(r1) /\ Outstanding(r2) /\ req[r1].convId = req[r2].convId) => r1 = r2
    /\ (\E r \in DOMAIN req : Outstanding(r)) =>
            \A t \in Inputs : ~CanSend(t, Cur) /\ ~ENABLED SendMessage(t, MaxReqs)

\* a request outstanding for a conversation whose earlier request was aborted
C8_Witness ==
    \E r1, r2 \in DOMAIN req :
        /\ r1 < r2
        /\ req[r1].convId = req[r2].convId
        /\ req[r1].pc = "aborted"
        /\ req[r2].pc = "reading"
        /\ streaming

\* the concatenation of the text fragments of the content-delta frames of a history
RECURSIVE UpText(_)
UpText(fs) ==
    IF fs = <<>> THEN <<>>
    ELSE (IF Head(fs).frame.type = "content_block_delta" THEN Head(fs).frame.text ELSE <<>>)
            \o UpText(Tail(fs))

\* the field-wise merge of the usage objects of the frames of type `type` of a history
RECURSIVE UpUsage(_, _)
UpUsage(fs, type) ==
    IF fs = <<>> THEN EmptyUsage
    ELSE IF Last(fs).frame.type = type /\ Last(fs).frame.usage # <<>>
         THEN Last(fs).frame.usage[1] @@ UpUsage(SubSeq(fs, 1, Len(fs) - 1), type)
         ELSE UpUsage(SubSeq(fs, 1, Len(fs) - 1), type)

\* C9: when the client applies the done event of a request, the last Turn of the
\* request's conversation becomes the assistant Turn whose content is the in-order
\* concatenation of the text fragments of all content-delta frames the upstream sent,
\* with streaming=false and with the merge of the message-start and message-delta
\* usage.
C9_DoneGivesWholeText ==
    [][\A r \in DOMAIN req :
            (/\ CanRead(r)
             /\ srv[r].out # <<>>
             /\ Head(srv[r].out) = DoneEv
             /\ ClientRead(r, FALSE)
             /\ HasConvo(conversations', req[r].convId)) =>
                Last(Messages(conversations', req[r].convId)) =
                    Turn("assistant", UpText(srv[r].frames), FALSE,
                         <<MergeUsage(UpUsage(srv[r].frames, "message_start"),
                                      UpUsage(srv[r].frames, "message_delta"))>>)]_vars

\* the conversation a sendMessage invoked now is for
SendTarget == IF activeId = NoId THEN nextId ELSE activeId

\* C17: a sendMessage step for a conversation without Turns (or with no conversation
\* active) gives the conversation the trimmed text t as title when t has at most 40
\* characters, and the first 40 characters of t followed by the ellipsis when t is
\* longer; a sendMessage step for a conversation that has Turns leaves its title as
\* it is.
C17_TitleFromFirstSend ==
    [][\A input \in SendInputs :
            SendMessage(input, MaxReqs) =>
                LET t == Trim(input)
                    had == /\ HasConvo(conversations, SendTarget)
                           /\ Messages(conversations, SendTarget) # <<>>
                    after == FindConvo(conversations', SendTarget)
                IN  /\ HasConvo(conversations', SendTarget)
                    /\ had => after.title = FindConvo(conversations, SendTarget).title
                    /\ (~had /\ Len(t) <= TitleMax) => after.title = t
                    /\ (~had /\ Len(t) > TitleMax) =>
                            after.title = SubSeq(t, 1, TitleMax) \o <<Ellipsis>>]_vars

\* a conversation whose first text had 45 characters and whose title is the first 40
\* and the ellipsis, unchanged by a second send
C17_Witness ==
    \E i \in DOMAIN conversations :
        LET c == conversations[i]
        IN  /\ Len(c.messages) = 4
            /\ c.messages[1].content = LongText(TitleMax + 5)
            /\ c.messages[3].content = <<"h", "i">>
            /\ c.title = LongText(TitleMax) \o <<Ellipsis>>
            /\ Len(c.title) = TitleMax + 1

\* C18: a sendMessage step leaves the conversation it is for with the Turns it had
\* (none when it is new), unchanged and in order, followed by one user Turn with the
\* trimmed input and one assistant Turn with empty content and streaming=true, and
\* leaves every other conversation as it is; and at all times the streaming last Turn
\* of the conversation of an outstanding request shows the text of the text events
\* applied so far, so nothing before the first.
C18_SendAppendsPair ==
    /\ [](\A r \in DOMAIN req :
            (/\ Outstanding(r)
             /\ HasConvo(conversations, req[r].convId)
             /\ Messages(conversations, req[r].convId) # <<>>
             /\ Last(Messages(conversations, req[r].convId)).streaming) =>
                Last(Messages(conversations, req[r].convId)) =
                    Turn("assistant", req[r].fullText, TRUE, <<>>))
    /\ [][\A input \in Inputs :
            SendMessage(input, MaxReqs) =>
                LET H == IF HasConvo(conversations, SendTarget)
                         THEN Messages(conversations, SendTarget) ELSE <<>>
                IN  /\ HasConvo(conversations', SendTarget)
                    /\ Messages(conversations', SendTarget) =
                            H \o <<UserTurn(Trim(input)), Placeholder>>
                    /\ Trim(input) = <<"h">>
                    /\ \A c \in Convos(conversations) :
                            c.id # SendTarget => c \in Convos(conversations')
                    /\ Len(conversations') =
                            Len(conversations) + (IF activeId = NoId THEN 1 ELSE 0)]_vars

\* a second request just sent for a conversation that holds a finished Turn pair
C18_Witness ==
    \E r \in DOMAIN req :
        /\ req[r].pc = "fetch"
        /\ HasConvo(conversations, req[r].convId)
        /\ Messages(conversations, req[r].convId) =
                <<UserTurn(<<"h">>), Turn("assistant", <<"a">>, FALSE, <<UsageB>>),
                  UserTurn(<<"h">>), Placeholder>>

\* all Turns of a Turn list but the last
Front(msgs) == SubSeq(msgs, 1, Len(msgs) - 1)

\* C19: when a reading request applies an error event, or an outstanding request
\* fails with an error that is no abort, and its conversation exists, the
\* conversation keeps its Turns but the last, which becomes the assistant Turn whose
\* content is the error annotation alone, with streaming=false and no usage; after
\* the failure the client is idle at once, and after the error event the stream is
\* over (nothing is on its way and the response is closed), so that the next read
\* ends the request, and a request that ends leaves the client idle.
C19_ErrorReplacesTurn ==
    [][\A r \in DOMAIN req :
            LET id == req[r].convId
                before == Messages(conversations, id)
                after == Messages(conversations', id)
            IN  /\ (/\ CanRead(r)
                    /\ srv[r].out # <<>>
                    /\ Head(srv[r].out).type = "error"
                    /\ ClientRead(r, FALSE)
                    /\ HasConvo(conversations, id)) =>
                        /\ HasConvo(conversations', id)
                        /\ before # <<>>
                        /\ Len(after) = Len(before)
                        /\ Front(after) = Front(before)
                        /\ Last(after) =
                               Turn("assistant", <<ErrPrefix>> \o Head(srv[r].out).error,
                                    FALSE, <<>>)
                        /\ srv[r].closed
                        /\ srv'[r].out = <<>>
                        /\ req'[r].pc = "reading"
                /\ (/\ Outstanding(r)
                    /\ ClientFail(r)
                    /\ HasConvo(conversations, id)) =>
                        /\ HasConvo(conversations', id)
                        /\ before # <<>>
                        /\ Len(after) = Len(before)
                        /\ Front(after) = Front(before)
                        /\ Last(after) = ErrorTurn(<<"Failed to fetch">>)
                        /\ ~streaming'
                        /\ req'[r].pc = "finished"
                /\ ClientEnd(r) => (~streaming' /\ req'[r].pc = "finished")]_vars

\* a request that had shown the text "a" and whose Turn now holds the annotation of
\* the error event that the relay wrote when the upstream body failed
C19_Witness ==
    \E r \in DOMAIN req :
        /\ req[r].pc = "reading"
        /\ req[r].fullText = <<"a">>
        /\ srv[r].out = <<>>
        /\ HasConvo(conversations, req[r].convId)
        /\ Messages(conversations, req[r].convId) =
                <<UserTurn(<<"h">>), ErrorTurn(<<"terminated">>)>>

\* C26: an assistant Turn carrying the error annotation appears only when the
\* request failed before response headers (the fetch of the client or the fetch of
\* the relay rejected) or when the upstream answered with a non-success status;
\* cancellation, a malformed frame and every other outcome produce none.
C26_ErrorTurnOnlyFromAB ==
    [][\A r \in DOMAIN req :
            LET id == req[r].convId
            IN  (/\ ClientFail(r) \/ ClientRead(r, FALSE) \/ ClientRead(r, TRUE)
                 /\ HasConvo(conversations, id)
                 /\ Messages(conversations, id) # <<>>
                 /\ ~IsErrorTurn(Last(Messages(conversations, id)))
                 /\ IsErrorTurn(Last(Messages(conversations', id)))) =>
                    \/ req[r].pc = "fetch"
                    \/ srv[r].up = "nonok"
                    \/ srv[r].up = "none" /\ srv[r].upCalls = 1 /\ srv[r].closed]_vars

\* request r has applied its done event: it is still in the reader loop and the last
\* Turn of its conversation carries a usage, which only the done branch attaches
Finalized(r) ==
    /\ req[r].pc = "reading"
    /\ HasConvo(conversations, req[r].convId)
    /\ Messages(conversations, req[r].convId) # <<>>
    /\ Last(Messages(conversations, req[r].convId)).usage # <<>>

\* C20: when a request applies its done event, the last Turn of its conversation
\* becomes the assistant Turn with the text shown so far, streaming=false and the
\* accumulated usage, the Turns before it staying as they are; and once a request has
\* applied done, no relay event of it is on its way and its response is closed, so
\* that no later event reaches that Turn, and the steps the request still takes
\* leave the Turns of the conversation as they are.
C20_DoneFreezesTurn ==
    /\ [](\A r \in DOMAIN req :
            Finalized(r) =>
                /\ srv[r].out = <<>>
                /\ srv[r].closed
                /\ Last(Messages(conversations, req[r].convId)) =
                       Turn("assistant", req[r].fullText, FALSE, <<req[r].usageData>>))
    /\ [][\A r \in DOMAIN req :
            LET id == req[r].convId
            IN  /\ (/\ CanRead(r)
                    /\ srv[r].out # <<>>
                    /\ Head(srv[r].out) = DoneEv
                    /\ ClientRead(r, FALSE)
                    /\ HasConvo(conversations, id)) =>
                        /\ HasConvo(conversations', id)
                        /\ Len(Messages(conversations', id)) = Len(Messages(conversations, id))
                        /\ Front(Messages(conversations', id)) =
                               Front(Messages(conversations, id))
                        /\ Last(Messages(conversations', id)) =
                               Turn("assistant", req[r].fullText, FALSE, <<req[r].usageData>>)
                /\ (/\ Finalized(r)
                    /\ \/ \E cut \in BOOLEAN : ClientRead(r, cut)
                       \/ ClientEnd(r)
                       \/ \E f \in Frames : SrvLine(r, f, FALSE, MaxFrames, FALSE)
                       \/ SrvEnd(r)
                       \/ SrvReadFail(r)) =>
                        Messages(conversations', id) = Messages(conversations, id)]_vars

\* a request still in its reader loop whose Turn was finalized with text and usage
C20_Witness ==
    \E r \in DOMAIN req :
        /\ Finalized(r)
        /\ Messages(conversations, req[r].convId) =
                <<UserTurn(<<"h">>), Turn("assistant", <<"a">>, FALSE, <<UsageB>>)>>

\* the accumulator of request r after the reader loop has applied the events evs
RECURSIVE Accumulate(_, _, _)
Accumulate(st, r, evs) ==
    IF evs = <<>> THEN st.req[r].usageData
    ELSE Accumulate(ApplyEvent(st, r, Head(evs)), r, Tail(evs))

\* C11 as stated: for any two partial usage records A and B, a reading request has
\* the same accumulator after usage_start(A), usage(B) as after usage(B),
\* usage_start(A).
C11_MergeCommutes ==
    \A r \in DOMAIN req : CanRead(r) =>
        \A A \in Usages, B \in Usages :
            Accumulate(Cur, r, <<UsageStartEv(A), UsageEv(B)>>) =
                Accumulate(Cur, r, <<UsageEv(B), UsageStartEv(A)>>)

\* C11 amended: the two orders give the same accumulator when A and B agree on every
\* field both carry (in particular when they carry no field in common); in either
\* order the accumulator carries every field of A and of B and keeps its other
\* fields, and a field both carry has the value of the event applied later.
C11_MergeCommutesDisjoint ==
    \A r \in DOMAIN req : CanRead(r) =>
        \A A \in Usages, B \in Usages :
            LET ab == Accumulate(Cur, r, <<UsageStartEv(A), UsageEv(B)>>)
                ba == Accumulate(Cur, r, <<UsageEv(B), UsageStartEv(A)>>)
                old == req[r].usageData
            IN  /\ (\A f \in DOMAIN A \cap DOMAIN B : A[f] = B[f]) => ab = ba
                /\ DOMAIN ab = DOMAIN old \cup DOMAIN A \cup DOMAIN B
                /\ DOMAIN ba = DOMAIN ab
                /\ \A f \in DOMAIN B : ab[f] = B[f]
                /\ \A f \in DOMAIN A : ba[f] = A[f]
                /\ \A f \in DOMAIN A \ DOMAIN B : ab[f] = A[f]
                /\ \A f \in DOMAIN B \ DOMAIN A : ba[f] = B[f]
                /\ \A f \in DOMAIN old \ (DOMAIN A \cup DOMAIN B) :
                        ab[f] = old[f] /\ ba[f] = old[f]

\* a request that has merged the usage of a message_delta and then that of a
\* message_start, and one that has merged them in the other order, with one result
C11_Witness ==
    \E r \in DOMAIN req :
        /\ CanRead(r)
        /\ Len(srv[r].frames) >= 2
        /\ srv[r].frames[1] = [frame |-> DeltaFrame(UsageB), cut |-> FALSE]
        /\ srv[r].frames[2] = [frame |-> StartFrame(UsageA), cut |-> FALSE]
        /\ req[r].usageData = ("input_tokens" :> 100) @@ ("output_tokens" :> 2)

\* the value of field f carried by the latest of the usage records us that has a
\* value for it other than null, <<>> when none has
RECURSIVE LatestNonNull(_, _)
LatestNonNull(us, f) ==
    IF us = <<>> THEN <<>>
    ELSE IF f \in DOMAIN Last(us) /\ Last(us)[f] # Null THEN <<Last(us)[f]>>
    ELSE LatestNonNull(SubSeq(us, 1, Len(us) - 1), f)

\* C29: after any usage_start and usage events the value of every field of the
\* accumulator is the value of the latest event that carried the field with a value
\* other than null (an event that carries it as null leaves it as it is), and these
\* events leave the Turns as they are.
C29_LatestNonNullWins ==
    \A r \in DOMAIN req : (CanRead(r) /\ req[r].usageData = EmptyUsage) =>
        \A A \in Usages \cup {UsageNull}, B \in Usages \cup {UsageNull} :
            LET evs == <<UsageStartEv(A), UsageEv(B)>>
                acc == Accumulate(Cur, r, evs)
            IN  /\ \A f \in DOMAIN A \cup DOMAIN B :
                      /\ LatestNonNull(<<A, B>>, f) # <<>> =>
                            (f \in DOMAIN acc /\ <<acc[f]>> = LatestNonNull(<<A, B>>, f))
                      /\ LatestNonNull(<<A, B>>, f) = <<>> =>
                            (f \in DOMAIN acc => acc[f] = Null)
                /\ ApplyEvent(ApplyEvent(Cur, r, evs[1]), r, evs[2]).conversations
                        = conversations

\* C21: the streaming flag is never persisted: no Turn of the stored conversations has
\* streaming = true, so no conversation loaded from the store has one either.
C21_NoStoredStreaming ==
    \A i \in DOMAIN storage :
        \A j \in DOMAIN storage[i].messages : ~storage[i].messages[j].streaming

\* C22: updatedAt of a conversation never decreases, and every step that appends a
\* Turn to it or changes its title, its model or its system prompt sets updatedAt to
\* the current time.
C22_UpdatedAtBumped ==
    [][\A id \in ConvoIds :
            HasConvo(conversations', id) =>
                LET c == FindConvo(conversations, id)
                    d == FindConvo(conversations', id)
                IN  /\ d.updatedAt >= c.updatedAt
                    /\ (\/ Len(d.messages) > Len(c.messages)
                        \/ d.title # c.title
                        \/ d.model # c.model
                        \/ d.system # c.system) => d.updatedAt = now]_vars

\* C30: the conversation list gains a conversation only by sendMessage with no active
\* conversation or by newChat; no other step (model or system-prompt change, rename,
\* clear, select, delete, stop) adds one.
C30_CreatedBySendOrNew ==
    [][(ConvoIds' \ ConvoIds # {}) =>
            \/ NewChat
            \/ activeId = NoId /\ \E t \in Inputs : SendMessage(t, 1)]_vars

\* C32: the state of the client does not depend on where the read boundaries fall in
\* the response: a relay event that arrives in two reads is applied as when it
\* arrives in one, and a request whose response has ended leaves the last Turn of
\* its conversation with streaming = false.
C32_ClientChunkingIndependent ==
    /\ [](\A r \in DOMAIN req :
            (req[r].pc = "finished" /\ HasConvo(conversations, req[r].convId)) =>
                ~Last(Messages(conversations, req[r].convId)).streaming)
    /\ [][\A r \in DOMAIN req :
            (CanRead(r) /\ srv[r].out # <<>> /\ ClientRead(r, TRUE)) =>
                LET whole == ApplyEvent(Cur, r, Head(srv[r].out))
                IN  conversations' = whole.conversations /\ req' = whole.req]_vars

\* C33: whenever the client is idle (the streaming flag is false and no request is
\* outstanding), no Turn of any conversation has streaming = true, however the
\* requests have ended.
C33_IdleNoStreamingTurn ==
    (~streaming /\ \A r \in DOMAIN req : ~Outstanding(r)) =>
        \A i \in DOMAIN conversations :
            \A j \in DOMAIN conversations[i].messages :
                ~conversations[i].messages[j].streaming

\* C34: the streaming flag is true whenever a request is outstanding; at most one
\* request is outstanding, and a request that has returned (finished or aborted)
\* takes no further step, so the completion of an earlier request neither sets the
\* flag to false nor changes a conversation while a later request is outstanding.
C34_FlagWhileOutstanding ==
    /\ (\E r \in DOMAIN req : Outstanding(r)) => streaming
    /\ \A r1, r2 \in DOMAIN req : (Outstanding(r1) /\ Outstanding(r2)) => r1 = r2
    /\ \A r \in DOMAIN req :
            ~Outstanding(r) =>
                /\ ~ENABLED ClientResponse(r)
                /\ ~ENABLED ClientFail(r)
                /\ ~ENABLED ClientRead(r, FALSE)
                /\ ~ENABLED ClientRead(r, TRUE)
                /\ ~ENABLED ClientEnd(r)

\* a later request is outstanding while events of an earlier, aborted request are
\* still on their way
C34_Witness ==
    \E r1, r2 \in DOMAIN req :
        /\ r1 < r2
        /\ req[r1].pc = "aborted"
        /\ srv[r1].out # <<>>
        /\ Outstanding(r2)
        /\ streaming

\* C35: applying a relay event of a request sent for conversation X changes only the
\* last Turn of X, and the updatedAt of X when the event is done: the other
\* conversations, and the earlier Turns, the title, the model and the system prompt
\* of X, stay as they are, and so does the active conversation, whichever it is.
C35_EventTouchesLastTurnOnly ==
    \A r \in DOMAIN req : CanRead(r) =>
        \A ev \in {TextEv(<<"a">>), UsageStartEv(UsageA), UsageEv(UsageB), DoneEv,
                    ErrorEv(<<"x">>)} :
            LET after == ApplyEvent([Cur EXCEPT !.now = now + 1], r, ev)
            IN  /\ after.activeId = activeId
                /\ Len(after.conversations) = Len(conversations)
                /\ \A i \in DOMAIN conversations :
                        LET c == conversations[i]
                            d == after.conversations[i]
                        IN  IF c.id # req[r].convId THEN d = c
                            ELSE /\ d.id = c.id /\ d.title = c.title
                                 /\ d.model = c.model /\ d.system = c.system
                                 /\ Len(d.messages) = Len(c.messages)
                                 /\ c.messages # <<>> => Front(d.messages) = Front(c.messages)
                                 /\ d.updatedAt = IF ev.type = "done" THEN now + 1
                                                  ELSE c.updatedAt

\* a request in its reader loop whose conversation shows the text received so far
\* while another conversation is active
C35_Witness ==
    \E r \in DOMAIN req :
        /\ CanRead(r)
        /\ HasConvo(conversations, req[r].convId)
        /\ HasConvo(conversations, activeId)
        /\ activeId # req[r].convId
        /\ req[r].fullText = <<"a">>
        /\ Last(Messages(conversations, req[r].convId)) =
                Turn("assistant", <<"a">>, TRUE, <<>>)
        /\ srv[r].out # <<>>

\* C37: a title the user has set with renameConvo is not changed by a later send: a
\* send to a conversation whose title is the renamed value leaves that title.
C37_RenameSurvivesSend ==
    [][\A id \in ConvoIds :
            (/\ FindConvo(conversations, id).title = <<"t">>
             /\ \E t \in Inputs : SendMessage(t, 1)) =>
                FindConvo(conversations', id).title = <<"t">>]_vars

\* C38: every accepted sendMessage is followed by a state where the client is idle:
\* the streaming flag is false and no request is outstanding, so that a send is
\* accepted again; on every path on which the request ends.
C38_EventuallyIdle ==
    (req # <<>>) ~> (~streaming /\ \A r \in DOMAIN req : ~Outstanding(r))

\* the client idle again after a request whose error event was applied and whose
\* response then ended
C38_Witness ==
    /\ ~streaming
    /\ \E r \in DOMAIN req :
            /\ req[r].pc = "finished"
            /\ srv[r].out = <<>>
            /\ HasConvo(conversations, req[r].convId)
            /\ Last(Messages(conversations, req[r].convId)) = ErrorTurn(<<"API error">>)

\* C10: stopStreaming invoked twice in succession leaves the client state that one
\* invocation leaves, and neither invocation adds a Turn or an error Turn.
C10_StopIdempotent ==
    LET once == StopStreamingEffect(Cur)
        twice == StopStreamingEffect(once)
    IN  /\ twice = once
        /\ ErrorTurns(once.conversations) = ErrorTurns(conversations)
        /\ \A i \in DOMAIN conversations :
                Len(once.conversations[i].messages) = Len(conversations[i].messages)

\* the state a first stopStreaming left while text had been streamed
C10_Witness ==
    \E r \in DOMAIN req :
        /\ req[r].pc = "aborted"
        /\ ~streaming
        /\ activeId = req[r].convId
        /\ HasConvo(conversations, activeId)
        /\ Messages(conversations, activeId) # <<>>
        /\ Last(Messages(conversations, activeId)) = Turn("assistant", <<"a", "a">>, FALSE, <<>>)

====
